---------------------------- MODULE Spec2Model ----------------------------
(***************************************************************************)
(* A model of the S3 photo backup client: the CryptoManager (PBKDF2 +      *)
(* AES-256-GCM over strings and files) and the SigV4 request signer of     *)
(* S3ClientSSE / S3Client.                                                 *)
(*                                                                         *)
(* Platform primitives are idealised, the repository's own code is not:    *)
(*   - crypto.getRandomValues never repeats an output;                     *)
(*   - PBKDF2-HMAC-SHA-256 is injective in (HMAC key block, salt);         *)
(*   - AES-GCM is an ideal authenticated cipher (a table of the            *)
(*     encryptions made so far: a ciphertext opens only under the key and  *)
(*     iv it was made with);                                               *)
(*   - SHA-256 / HMAC-SHA-256 are collision free (a table of the inputs    *)
(*     hashed so far, the digest being the hex index of the input).        *)
(* Text conversions (TextEncoder, TextDecoder, btoa, atob,                 *)
(* encodeURIComponent, URLSearchParams, Date.toISOString) are computed.    *)
(***************************************************************************)
EXTENDS Integers, Sequences, FiniteSets, TLC

VARIABLES
    \* ---- CryptoManager ----
    calls,      \* slot -> the encrypt/decrypt call running in it (or idle)
    draws,      \* crypto.getRandomValues outputs so far: <<[inst, bytes]>>
    gcm,        \* AES-GCM encryptions made so far: <<[key, iv, pt, ct]>>
    sealed,     \* envelopes returned by encryptString / encryptFile
    finished,   \* completed decrypt calls with their outcome
    uses,       \* salt / iv values handed to deriveKey / encrypt, per call
    nCalls,     \* number of calls started so far
    \* ---- request signer ----
    now,        \* wall clock: [s |-> epoch seconds, ms |-> 0..999]
    config,     \* this.config of the signer
    signing,    \* slot -> the signing call running in it (or idle)
    digests,    \* inputs hashed so far by SHA-256 / HMAC-SHA-256
    artifacts,  \* signed artifacts returned so far
    nSigned,    \* number of signing calls started so far
    nTicks,     \* number of clock advances so far
    \* ---- MD5 ----
    md5,        \* one MD5.hashBytes / MD5.hash call: its input and its result
    \* ---- S3ClientSSE and the requests sent ----
    sse,        \* the signer's passphrase and its this.sseKey promise
    sseHeaders, \* what the getSSEHeaders() calls returned
    nHeaders,   \* number of getSSEHeaders() calls so far
    transfers,  \* uploads / downloads waiting for their presigned url
    requests,   \* the requests sent to the object store
    cleanedUp,  \* the application's cleanup() has run
    given,      \* the config object handed to the signer's constructor
    \* ---- ConfigManager ----
    manager,    \* this.currentConfig and this.isConfigured
    pending,    \* the setConfig / import call waiting for its saveConfig
    storage,    \* the localStorage item 's3-photo-backup-config'
    outcomes,   \* how the ConfigManager calls ended: returned or threw
    events,     \* the events dispatched on window, in order
    nManager,   \* number of ConfigManager calls started so far
    \* ---- UIComponents: the upload queue and the object store ----
    uploadQueue, \* the entries of this.uploadQueue, in insertion order:
                \* <<[id, file, status, present]>>
    batch,      \* the running startBatchUpload calls: where each is, what it counted
    store,      \* the objects the store holds: {[key, body]}
    messages,   \* the status messages shown, in order
    processed,  \* the batchProcess calls: the files given, the results returned
    uploadCalls, \* the uploadFile calls of the batches: <<[batch, id]>>
    nQueued,    \* number of files put on the queue so far
    nBatches,   \* number of startBatchUpload calls so far
    \* ---- S3PhotoBackupApp ----
    page,       \* the page the application is loaded in
    app,        \* the S3PhotoBackupApp instance and where its initialize() is
    \* ---- UIComponents: the gallery and the photo viewer ----
    gallery,    \* photoGallery, currentPhoto, the viewer, the photo grid's tiles
    nLoads      \* number of loadGallery calls so far

cryptoVars == <<calls, draws, gcm, sealed, finished, uses, nCalls>>
signVars == <<now, config, signing, digests, artifacts, nSigned, nTicks>>
md5Vars == <<md5>>
sseVars == <<sse, sseHeaders, nHeaders, transfers, requests, cleanedUp, given>>
cfgVars == <<manager, pending, storage, outcomes, events, nManager>>
uiVars ==
    <<uploadQueue, batch, store, messages, processed, uploadCalls, nQueued, nBatches>>
appVars == <<page, app>>
galleryVars == <<gallery, nLoads>>
vars ==
    <<cryptoVars, signVars, md5Vars, sseVars, cfgVars, uiVars, appVars, galleryVars>>

-----------------------------------------------------------------------------
(* Bounds of the model *)

\* concurrent CryptoManager calls
MaxCalls == 2
\* CryptoManager calls started in one behaviour
MaxOps == 2
\* signing calls started in one behaviour
MaxSigned == 2
\* clock advances in one behaviour
MaxTicks == 2
\* concurrent signing calls
MaxSigning == 2
\* longest byte message given to MD5.hashBytes
MaxMsgLen == 120
\* getSSEHeaders() calls in one behaviour
MaxHeaderCalls == 2
\* uploads and downloads of an S3ClientSSE in one behaviour
MaxTransfers == 1
\* ConfigManager calls started in one behaviour
MaxManagerOps == 2
\* files put on the upload queue in one behaviour
MaxQueued == 2
\* startBatchUpload calls in one behaviour
MaxBatches == 2
\* loadGallery calls in one behaviour
MaxLoads == 2

-----------------------------------------------------------------------------
(* Generic helpers on strings (TLA+ strings, ASCII) *)

\* the element of a one-element set. A value is computed once and named by
\* Only({e(v) : v \in {value}}): v is the value itself, where a LET would
\* stand for the expression
Only(S) == CHOOSE x \in S : TRUE

\* part occurs in whole as a run of consecutive elements
ContainsBytes(whole, part) ==
    \E i \in 0..(Len(whole) - Len(part)) :
        SubSeq(whole, i + 1, i + Len(part)) = part

\* the characters of s, one string of length 1 each
Chars(s) == [i \in 1..Len(s) |-> SubSeq(s, i, i)]

RECURSIVE Concat(_)
Concat(ss) == IF ss = <<>> THEN "" ELSE Head(ss) \o Concat(Tail(ss))

RECURSIVE JoinWith(_, _)
JoinWith(ss, sep) ==
    IF ss = <<>> THEN ""
    ELSE IF Len(ss) = 1 THEN ss[1]
    ELSE ss[1] \o sep \o JoinWith(Tail(ss), sep)

\* printable ASCII by char code: <<code of the first character, characters>>
\* (without the double quote 34, the backslash 92 and the backtick 96)
AsciiTable ==
    << <<32, " !">>,
       <<35, "#$%&'()*+,-./0123456789:;<=>?@ABCDEFGHIJKLMNOPQRSTUVWXYZ[">>,
       <<93, "]^_">>,
       <<97, "abcdefghijklmnopqrstuvwxyz{|}~">> >>

\* the char code of a one-character string
Ord(c) ==
    LET seg == CHOOSE k \in 1..Len(AsciiTable) :
                   \E i \in 1..Len(AsciiTable[k][2]) :
                       SubSeq(AsciiTable[k][2], i, i) = c
        at == CHOOSE i \in 1..Len(AsciiTable[seg][2]) :
                   SubSeq(AsciiTable[seg][2], i, i) = c
    IN AsciiTable[seg][1] + at - 1

\* the character of a char code
Chr(n) ==
    LET seg == CHOOSE k \in 1..Len(AsciiTable) :
                   /\ AsciiTable[k][1] <= n
                   /\ n < AsciiTable[k][1] + Len(AsciiTable[k][2])
        at == n - AsciiTable[seg][1] + 1
    IN SubSeq(AsciiTable[seg][2], at, at)

HexDigits == "0123456789ABCDEF"
HexDigit(n) == SubSeq(HexDigits, n + 1, n + 1)
PercentEscape(c) == "%" \o HexDigit(Ord(c) \div 16) \o HexDigit(Ord(c) % 16)

IsAlnum(c) ==
    LET o == Ord(c) IN
    \/ (o >= 48 /\ o <= 57)
    \/ (o >= 65 /\ o <= 90)
    \/ (o >= 97 /\ o <= 122)

-----------------------------------------------------------------------------
(* TextEncoder / TextDecoder: JS strings are sequences of UTF-16 code units *)

IsHighSurrogate(u) == u >= 55296 /\ u <= 56319
IsLowSurrogate(u) == u >= 56320 /\ u <= 57343

Utf8OfCodePoint(cp) ==
    IF cp < 128 THEN <<cp>>
    ELSE IF cp < 2048 THEN <<192 + (cp \div 64), 128 + (cp % 64)>>
    ELSE IF cp < 65536
    THEN <<224 + (cp \div 4096), 128 + ((cp \div 64) % 64), 128 + (cp % 64)>>
    ELSE <<240 + (cp \div 262144), 128 + ((cp \div 4096) % 64),
           128 + ((cp \div 64) % 64), 128 + (cp % 64)>>

\* the concatenation of parts[lo] .. parts[hi]
RECURSIVE ConcatRange(_, _, _)
ConcatRange(parts, lo, hi) ==
    IF lo > hi THEN <<>>
    ELSE IF lo = hi THEN parts[lo]
    ELSE LET mid == (lo + hi) \div 2
         IN ConcatRange(parts, lo, mid) \o ConcatRange(parts, mid + 1, hi)

\* new TextEncoder().encode(s): the string is first converted to scalar
\* values (a surrogate pair is one code point, a lone surrogate becomes
\* U+FFFD), then written as UTF-8. A low surrogate right after a high one
\* is the second half of a pair: the pair is written at the high one.
TextEncode(s) ==
    LET n == Len(s)
        written == [i \in 1..n |->
            IF IsHighSurrogate(s[i]) /\ i < n /\ IsLowSurrogate(s[i + 1])
            THEN Utf8OfCodePoint(65536 + (s[i] - 55296) * 1024 + (s[i + 1] - 56320))
            ELSE IF IsLowSurrogate(s[i]) /\ i > 1 /\ IsHighSurrogate(s[i - 1])
            THEN <<>>
            ELSE IF IsHighSurrogate(s[i]) \/ IsLowSurrogate(s[i])
            THEN Utf8OfCodePoint(65533)
            ELSE Utf8OfCodePoint(s[i])]
    IN Only({ConcatRange(parts, 1, n) : parts \in {written}})

\* the UTF-8 decoder of the platform (non fatal): a malformed sequence
\* gives one U+FFFD and decoding resumes at the offending byte
RECURSIVE Utf8Decode(_)
Utf8Decode(b) ==
    IF b = <<>> THEN <<>>
    ELSE
      LET b1 == b[1]
          n == Len(b)
          need == IF b1 >= 194 /\ b1 <= 223 THEN 1
                  ELSE IF b1 >= 224 /\ b1 <= 239 THEN 2
                  ELSE IF b1 >= 240 /\ b1 <= 244 THEN 3
                  ELSE 0
          lo2 == IF b1 = 224 THEN 160 ELSE IF b1 = 240 THEN 144 ELSE 128
          hi2 == IF b1 = 237 THEN 159 ELSE IF b1 = 244 THEN 143 ELSE 191
          Good(i) == /\ i <= n
                     /\ IF i = 2 THEN b[i] >= lo2 /\ b[i] <= hi2
                                 ELSE b[i] >= 128 /\ b[i] <= 191
          got == IF need >= 1 /\ Good(2)
                 THEN IF need >= 2 /\ Good(3)
                      THEN IF need >= 3 /\ Good(4) THEN 3 ELSE 2
                      ELSE 1
                 ELSE 0
          rest == Utf8Decode(SubSeq(b, 2 + got, n))
          cp == IF need = 1 THEN (b1 - 192) * 64 + (b[2] - 128)
                ELSE IF need = 2
                THEN (b1 - 224) * 4096 + (b[2] - 128) * 64 + (b[3] - 128)
                ELSE (b1 - 240) * 262144 + (b[2] - 128) * 4096
                         + (b[3] - 128) * 64 + (b[4] - 128)
          \* the bytes below 128 at the front decode to themselves
          ascii == IF \A i \in 1..n : b[i] < 128 THEN n
                   ELSE (CHOOSE i \in 1..n :
                             b[i] >= 128 /\ \A j \in 1..(i - 1) : b[j] < 128) - 1
      IN IF b1 < 128
         THEN Only({SubSeq(b, 1, k) \o Utf8Decode(SubSeq(b, k + 1, n)) :
                    k \in {ascii}})
         ELSE IF need = 0 THEN <<65533>> \o Utf8Decode(Tail(b))
         ELSE IF got < need THEN <<65533>> \o rest
         ELSE IF cp < 65536 THEN <<cp>> \o rest
         ELSE <<55296 + ((cp - 65536) \div 1024),
                56320 + ((cp - 65536) % 1024)>> \o rest

\* new TextDecoder().decode(b): ignoreBOM is false by default, so a leading
\* byte order mark EF BB BF is consumed and not part of the result
TextDecode(b) ==
    IF Len(b) >= 3 /\ b[1] = 239 /\ b[2] = 187 /\ b[3] = 191
    THEN Utf8Decode(SubSeq(b, 4, Len(b)))
    ELSE Utf8Decode(b)

-----------------------------------------------------------------------------
(* btoa / atob *)

B64Alphabet ==
    "ABCDEFGHIJKLMNOPQRSTUVWXYZabcdefghijklmnopqrstuvwxyz0123456789+/"
B64Char(n) == SubSeq(B64Alphabet, n + 1, n + 1)
IsB64Char(c) == \E i \in 0..63 : B64Char(i) = c
B64Index(c) == CHOOSE i \in 0..63 : B64Char(i) = c

\* the concatenation of the strings parts[lo] .. parts[hi]
RECURSIVE StrConcatRange(_, _, _)
StrConcatRange(parts, lo, hi) ==
    IF lo > hi THEN ""
    ELSE IF lo = hi THEN parts[lo]
    ELSE LET mid == (lo + hi) \div 2
         IN StrConcatRange(parts, lo, mid) \o StrConcatRange(parts, mid + 1, hi)

\* the four characters btoa writes for the g-th group of three bytes of b
\* (with '=' in place of the missing bytes of the last group)
B64Group(b, g) ==
    LET i == (3 * (g - 1)) + 1
        n == Len(b)
    IN IF i = n
       THEN B64Char(b[i] \div 4) \o B64Char((b[i] % 4) * 16) \o "=="
       ELSE IF i + 1 = n
       THEN B64Char(b[i] \div 4) \o B64Char(((b[i] % 4) * 16) + (b[i + 1] \div 16))
                \o B64Char((b[i + 1] % 16) * 4) \o "="
       ELSE B64Char(b[i] \div 4) \o B64Char(((b[i] % 4) * 16) + (b[i + 1] \div 16))
                \o B64Char(((b[i + 1] % 16) * 4) + (b[i + 2] \div 64))
                \o B64Char(b[i + 2] % 64)

\* btoa(String.fromCharCode(...b))
Btoa(b) ==
    Only({Only({StrConcatRange(parts, 1, Len(parts)) :
                parts \in {[g \in 1..((Len(x) + 2) \div 3) |-> B64Group(x, g)]}}) :
          x \in {b}})

\* the bytes atob makes of the g-th group of four sextets of x (of the two
\* or three sextets that are left, for the last group)
SextetGroup(x, g) ==
    LET i == (4 * (g - 1)) + 1
        n == Len(x)
    IN IF i + 1 > n THEN <<>>
       ELSE IF i + 1 = n THEN <<(x[i] * 4) + (x[i + 1] \div 16)>>
       ELSE IF i + 2 = n
       THEN <<(x[i] * 4) + (x[i + 1] \div 16),
              ((x[i + 1] % 16) * 16) + (x[i + 2] \div 4)>>
       ELSE <<(x[i] * 4) + (x[i + 1] \div 16),
              ((x[i + 1] % 16) * 16) + (x[i + 2] \div 4),
              ((x[i + 2] % 4) * 64) + x[i + 3]>>

SextetsToBytes(x) ==
    Only({Only({ConcatRange(parts, 1, Len(parts)) :
                parts \in {[g \in 1..((Len(y) + 3) \div 4) |-> SextetGroup(y, g)]}}) :
          y \in {x}})

IsAsciiWhitespace(c) == c \in {" ", "\t", "\n", "\r", "\f"}

\* atob(s): [ok |-> TRUE, bytes |-> ...] or the InvalidCharacterError it throws
Atob(s) ==
    LET cs == SelectSeq(Chars(s), LAMBDA c : ~IsAsciiWhitespace(c))
        n0 == Len(cs)
        data == IF n0 >= 1 /\ n0 % 4 = 0 /\ cs[n0] = "="
                THEN IF n0 >= 2 /\ cs[n0 - 1] = "="
                     THEN SubSeq(cs, 1, n0 - 2)
                     ELSE SubSeq(cs, 1, n0 - 1)
                ELSE cs
    IN IF Len(data) % 4 = 1 \/ \E i \in 1..Len(data) : ~IsB64Char(data[i])
       THEN [ok |-> FALSE, bytes |-> <<>>, name |-> "InvalidCharacterError"]
       ELSE [ok |-> TRUE,
             bytes |-> SextetsToBytes([i \in 1..Len(data) |-> B64Index(data[i])]),
             name |-> ""]

\* CryptoManager.arrayBufferToBase64 / base64ToArrayBuffer
ArrayBufferToBase64(buffer) == Btoa(buffer)
Base64ToArrayBuffer(base64) == Atob(base64)

-----------------------------------------------------------------------------
(* CryptoManager: parameters set by the constructor *)

ivLength == 12
saltLength == 16
tagLength == 16
iterations == 100000
\* block size in bytes of HMAC-SHA-256, the PRF of the PBKDF2 call
HmacBlockSize == 64

AuthenticationFailure ==
    "Decryption failed: Incorrect passphrase or corrupted data"
\* message of the DOMException atob throws
AtobMessage == "The string to be decoded is not correctly encoded."

-----------------------------------------------------------------------------
(* Inputs of the CryptoManager calls *)

\* passphrases (UTF-16 code units): "p", "p" followed by U+0000, "q"
Passphrases == {<<112>>, <<112, 0>>, <<113>>}
\* texts: "hi", U+FEFF "h", U+1F600 (a surrogate pair)
Texts == {<<104, 105>>, <<65279, 104>>, <<55357, 56832>>}
\* file arguments: an ArrayBuffer, or a File whose bytes are read first
Files == {[isFile |-> FALSE, bytes |-> <<1, 2>>],
          [isFile |-> TRUE, bytes |-> <<>>]}
\* what may happen to a stored envelope before it is handed to decrypt
StringCorruptions ==
    {"none", "ctTamper", "ivTamper", "saltTamper", "ctBadText", "saltBadText"}
FileCorruptions == {"none", "ctTamper", "ivTamper", "saltTamper", "ctTruncate"}

Slots == 1..MaxCalls
Idle == [op |-> "idle"]

-----------------------------------------------------------------------------
(* Platform primitives *)

\* the n-th output of crypto.getRandomValues, of the given length; outputs
\* differ in their first byte, so no output repeats (n < 256)
RandomOutput(n, length) ==
    [i \in 1..length |-> IF i = 1 THEN n ELSE (n * 37 + i * 11) % 256]

\* the key block HMAC works with: keys longer than the block are hashed,
\* shorter ones are padded with zero bytes
HmacKeyBlock(b) ==
    IF Len(b) > HmacBlockSize
    THEN [hashed |-> TRUE, bytes |-> b]
    ELSE [hashed |-> FALSE,
          bytes |-> b \o [i \in 1..(HmacBlockSize - Len(b)) |-> 0]]

\* a cipher that leaves the plaintext as it is and adds a tag of zeros
GcmCiphertext_null(table, key, iv, pt) ==
    pt \o [i \in 1..tagLength |-> 0]

\* AES-GCM encryption with an ideal cipher: the ciphertext (with its tag) of
\* a (key, iv, plaintext) not seen before is a fresh byte string
GcmCiphertext(table, key, iv, pt) ==
    LET same == {i \in 1..Len(table) :
                    table[i].key = key /\ table[i].iv = iv /\ table[i].pt = pt}
        n == Len(table) + 1
    IN IF same # {} THEN table[CHOOSE i \in same : TRUE].ct
       ELSE [i \in 1..(Len(pt) + tagLength) |->
                IF i = 1 THEN n ELSE (n * 29 + i * 7) % 256]

\* AES-GCM decryption: the plaintext if the tag verifies, that is if the
\* ciphertext was made under this key and iv; else an OperationError
GcmDecrypt(table, key, iv, ct) ==
    LET hit == {i \in 1..Len(table) :
                   table[i].ct = ct /\ table[i].key = key /\ table[i].iv = iv}
    IN IF hit # {}
       THEN [ok |-> TRUE, pt |-> table[CHOOSE i \in hit : TRUE].pt, name |-> ""]
       ELSE [ok |-> FALSE, pt |-> <<>>, name |-> "OperationError"]

-----------------------------------------------------------------------------
(* CryptoManager operations *)

\* generateSalt() / generateIV() as the next outputs of the random source
GenerateSalt(n) == RandomOutput(n, saltLength)
GenerateIV(n) == RandomOutput(n, ivLength)

\* deriveKey with the passphrase left out of the key material
DeriveKey_passphraseIgnored(passphrase, salt) ==
    [block |-> HmacKeyBlock(<<>>), salt |-> salt, iterations |-> iterations]

\* deriveKey(passphrase, salt): PBKDF2 over the UTF-8 bytes of the passphrase
DeriveKey(passphrase, salt) ==
    [block |-> HmacKeyBlock(TextEncode(passphrase)),
     salt |-> salt,
     iterations |-> iterations]

\* the salt of the most recent generateSalt() of any call, as if the salt
\* were kept in a field of the shared CryptoManager instance
SaltArg_sharedField(c) == draws[Len(draws) - 1].bytes

\* the salt the encryption call in slot c hands to deriveKey, and the iv it
\* hands to crypto.subtle.encrypt: the const salt / const iv of that call
SaltArg(c) == calls[c].salt
IvArg(c) == calls[c].iv

NewCall(op, pc, plain, pass, data) ==
    [op |-> op, pc |-> pc, inst |-> nCalls + 1, plain |-> plain, pass |-> pass,
     data |-> data, salt |-> <<>>, iv |-> <<>>, key |-> <<>>, ct |-> <<>>,
     from |-> 0, corruption |-> "none"]

\* const salt = this.generateSalt(); const iv = this.generateIV();
DrawSaltAndIV(c, call) ==
    LET n == Len(draws) IN
    /\ calls' = [calls EXCEPT ![c] = [call EXCEPT !.salt = GenerateSalt(n + 1),
                                                  !.iv = GenerateIV(n + 2),
                                                  !.pc = "deriveKey"]]
    /\ draws' = draws \o <<[inst |-> call.inst, bytes |-> GenerateSalt(n + 1)],
                           [inst |-> call.inst, bytes |-> GenerateIV(n + 2)]>>

\* encryptString(text, passphrase), up to its first await
EncryptStringStart(c, text, passphrase) ==
    /\ calls[c].op = "idle"
    /\ nCalls' = nCalls + 1
    /\ DrawSaltAndIV(c, NewCall("encryptString", "start", text, passphrase,
                                TextEncode(text)))
    /\ UNCHANGED <<gcm, sealed, finished, uses>>

\* an encryptString call made on the CryptoManager directly
EncryptStringBegin(c, text, passphrase) ==
    /\ nCalls < MaxOps
    /\ EncryptStringStart(c, text, passphrase)

\* encryptFile(file, passphrase), up to its first await: a File is read
\* first (await file.arrayBuffer()), an ArrayBuffer is used as it is
EncryptFileStart(c, file, passphrase) ==
    /\ calls[c].op = "idle"
    /\ nCalls' = nCalls + 1
    /\ IF file.isFile
       THEN /\ calls' = [calls EXCEPT ![c] =
                            NewCall("encryptFile", "arrayBuffer", file.bytes,
                                    passphrase, file.bytes)]
            /\ UNCHANGED draws
       ELSE DrawSaltAndIV(c, NewCall("encryptFile", "start", file.bytes,
                                     passphrase, file.bytes))
    /\ UNCHANGED <<gcm, sealed, finished, uses>>

\* an encryptFile call made on the CryptoManager directly
EncryptFileBegin(c, file, passphrase) ==
    /\ nCalls < MaxOps
    /\ EncryptFileStart(c, file, passphrase)

\* encryptFile after file.arrayBuffer() has resolved
EncryptFileRead(c) ==
    /\ calls[c].op = "encryptFile"
    /\ calls[c].pc = "arrayBuffer"
    /\ DrawSaltAndIV(c, calls[c])
    /\ UNCHANGED <<gcm, sealed, finished, uses, nCalls>>

\* const key = await this.deriveKey(passphrase, salt) of an encryption
EncryptDeriveKey(c) ==
    /\ calls[c].op \in {"encryptString", "encryptFile"}
    /\ calls[c].pc = "deriveKey"
    /\ calls' = [calls EXCEPT ![c].key = DeriveKey(calls[c].pass, SaltArg(c)),
                              ![c].pc = "cipher"]
    /\ uses' = uses \cup {[inst |-> calls[c].inst, role |-> "salt",
                           bytes |-> SaltArg(c)]}
    /\ UNCHANGED <<draws, gcm, sealed, finished, nCalls>>

\* await crypto.subtle.encrypt(...) and the return of the envelope:
\* encryptString returns base64 text, encryptFile the buffers themselves
EncryptFinish(c) ==
    /\ calls[c].op \in {"encryptString", "encryptFile"}
    /\ calls[c].pc = "cipher"
    /\ LET call == calls[c]
           ct == GcmCiphertext(gcm, call.key, IvArg(c), call.data)
           env == IF call.op = "encryptString"
                  THEN [encryptedData |-> ArrayBufferToBase64(ct),
                        salt |-> ArrayBufferToBase64(call.salt),
                        iv |-> ArrayBufferToBase64(call.iv)]
                  ELSE [encryptedData |-> ct, salt |-> call.salt, iv |-> call.iv]
       IN /\ gcm' = IF \E i \in 1..Len(gcm) : gcm[i].ct = ct THEN gcm
                    ELSE Append(gcm, [key |-> call.key, iv |-> IvArg(c),
                                      pt |-> call.data, ct |-> ct])
          /\ sealed' = sealed \cup {[inst |-> call.inst, op |-> call.op,
                                     env |-> env, plain |-> call.plain,
                                     pass |-> call.pass]}
          /\ uses' = uses \cup {[inst |-> call.inst, role |-> "iv",
                                 bytes |-> IvArg(c)]}
    /\ calls' = [calls EXCEPT ![c] = Idle]
    /\ UNCHANGED <<draws, finished, nCalls>>

\* a stored base64 field with its first character changed to another
\* base64 character, or to a character that is not base64
TamperText(s) ==
    (IF SubSeq(s, 1, 1) = "A" THEN "B" ELSE "A") \o SubSeq(s, 2, Len(s))
BadText(s) == "!" \o SubSeq(s, 2, Len(s))
TamperBytes(b) == [b EXCEPT ![1] = (b[1] + 1) % 256]

CorruptString(env, how) ==
    [encryptedData |-> IF how = "ctTamper" THEN TamperText(env.encryptedData)
                       ELSE IF how = "ctBadText" THEN BadText(env.encryptedData)
                       ELSE env.encryptedData,
     salt |-> IF how = "saltTamper" THEN TamperText(env.salt)
              ELSE IF how = "saltBadText" THEN BadText(env.salt)
              ELSE env.salt,
     iv |-> IF how = "ivTamper" THEN TamperText(env.iv) ELSE env.iv]

CorruptFile(env, how) ==
    [encryptedData |-> IF how = "ctTamper" THEN TamperBytes(env.encryptedData)
                       ELSE IF how = "ctTruncate"
                       THEN SubSeq(env.encryptedData, 1, tagLength - 1)
                       ELSE env.encryptedData,
     salt |-> IF how = "saltTamper" THEN TamperBytes(env.salt) ELSE env.salt,
     iv |-> IF how = "ivTamper" THEN TamperBytes(env.iv) ELSE env.iv]

Outcome(call, ok, value, message) ==
    [inst |-> call.inst, op |-> call.op, from |-> call.from,
     corruption |-> call.corruption, pass |-> call.pass,
     ok |-> ok, value |-> value, message |-> message]

\* decryptString(encryptedData, salt, iv, passphrase), up to its first
\* await: the three base64ToArrayBuffer calls; what atob throws is caught by
\* the catch block, is no OperationError and is rethrown with its message
DecryptStringStart(c, env, from, how, passphrase) ==
    /\ calls[c].op = "idle"
    /\ nCalls' = nCalls + 1
    /\ LET encryptedBuffer == Base64ToArrayBuffer(env.encryptedData)
           saltBuffer == Base64ToArrayBuffer(env.salt)
           ivBuffer == Base64ToArrayBuffer(env.iv)
           call == [NewCall("decryptString", "deriveKey", <<>>, passphrase, <<>>)
                       EXCEPT !.from = from, !.corruption = how]
       IN IF encryptedBuffer.ok /\ saltBuffer.ok /\ ivBuffer.ok
          THEN /\ calls' = [calls EXCEPT ![c] =
                               [call EXCEPT !.ct = encryptedBuffer.bytes,
                                            !.salt = saltBuffer.bytes,
                                            !.iv = ivBuffer.bytes]]
               /\ UNCHANGED finished
          ELSE /\ finished' = finished \cup
                      {Outcome(call, FALSE, <<>>,
                               "String decryption failed: " \o AtobMessage)}
               /\ UNCHANGED calls
    /\ UNCHANGED <<draws, gcm, sealed, uses>>

\* decryptString of an envelope encryptString returned, as it is or corrupted
DecryptStringBegin(c, e, how, passphrase) ==
    /\ nCalls < MaxOps
    /\ e \in sealed /\ e.op = "encryptString"
    /\ DecryptStringStart(c, CorruptString(e.env, how), e.inst, how, passphrase)

\* decryptFile(encryptedData, salt, iv, passphrase), up to its first await
DecryptFileBegin(c, e, how, passphrase) ==
    /\ calls[c].op = "idle"
    /\ nCalls < MaxOps
    /\ e \in sealed /\ e.op = "encryptFile"
    /\ nCalls' = nCalls + 1
    /\ LET env == CorruptFile(e.env, how)
       IN calls' = [calls EXCEPT ![c] =
                [NewCall("decryptFile", "deriveKey", <<>>, passphrase, <<>>)
                    EXCEPT !.from = e.inst, !.corruption = how,
                           !.ct = env.encryptedData, !.salt = env.salt,
                           !.iv = env.iv]]
    /\ UNCHANGED <<draws, gcm, sealed, finished, uses>>

\* const key = await this.deriveKey(passphrase, salt) of a decryption
DecryptDeriveKey(c) ==
    /\ calls[c].op \in {"decryptString", "decryptFile"}
    /\ calls[c].pc = "deriveKey"
    /\ calls' = [calls EXCEPT ![c].key = DeriveKey(calls[c].pass, calls[c].salt),
                              ![c].pc = "cipher"]
    /\ UNCHANGED <<draws, gcm, sealed, finished, uses, nCalls>>

\* await crypto.subtle.decrypt(...): the plaintext (decoded as text by
\* decryptString), or the catch block on an OperationError
DecryptFinish(c) ==
    /\ calls[c].op \in {"decryptString", "decryptFile"}
    /\ calls[c].pc = "cipher"
    /\ LET call == calls[c]
           r == GcmDecrypt(gcm, call.key, call.iv, call.ct)
       IN finished' = finished \cup
              {IF ~r.ok THEN Outcome(call, FALSE, <<>>, AuthenticationFailure)
               ELSE IF call.op = "decryptString"
               THEN Outcome(call, TRUE, TextDecode(r.pt), "")
               ELSE Outcome(call, TRUE, r.pt, "")}
    /\ calls' = [calls EXCEPT ![c] = Idle]
    /\ UNCHANGED <<draws, gcm, sealed, uses, nCalls>>

CryptoInit ==
    /\ calls = [c \in Slots |-> Idle]
    /\ draws = <<>>
    /\ gcm = <<>>
    /\ sealed = {}
    /\ finished = {}
    /\ uses = {}
    /\ nCalls = 0

\* the slot a new call is started in: the first idle one
FreeSlot ==
    IF \E c \in Slots : calls[c].op = "idle"
    THEN {CHOOSE c \in Slots :
              calls[c].op = "idle" /\ \A d \in Slots : calls[d].op = "idle" => c <= d}
    ELSE {}

\* one CryptoManager call at a time, over all inputs
CryptoNext ==
    \/ \E text \in Texts, k \in Passphrases : EncryptStringBegin(1, text, k)
    \/ \E file \in Files, k \in Passphrases : EncryptFileBegin(1, file, k)
    \/ EncryptFileRead(1)
    \/ EncryptDeriveKey(1)
    \/ EncryptFinish(1)
    \/ \E e \in sealed, how \in StringCorruptions, k \in Passphrases :
           DecryptStringBegin(1, e, how, k)
    \/ \E e \in sealed, how \in FileCorruptions, k \in Passphrases :
           DecryptFileBegin(1, e, how, k)
    \/ DecryptDeriveKey(1)
    \/ DecryptFinish(1)

\* concurrent encryption calls, interleaved at their awaits
EncryptNext ==
    \/ \E c \in FreeSlot, text \in {<<104, 105>>}, k \in {<<112>>, <<113>>} :
           EncryptStringBegin(c, text, k)
    \/ \E c \in FreeSlot, file \in Files, k \in {<<112>>} :
           EncryptFileBegin(c, file, k)
    \/ \E c \in Slots : EncryptFileRead(c)
    \/ \E c \in Slots : EncryptDeriveKey(c)
    \/ \E c \in Slots : EncryptFinish(c)

-----------------------------------------------------------------------------
(* Properties of the CryptoManager *)

\* the envelope a finished decrypt call was given (before any corruption)
SealedOf(f) == CHOOSE e \in sealed : e.inst = f.from

KeyBlockOf(passphrase) == HmacKeyBlock(TextEncode(passphrase))

\* C1: decrypting an envelope as it was returned by encryptString /
\* encryptFile, with the passphrase it was sealed under, succeeds and
\* returns exactly the plaintext that was encrypted
C1_RoundTrip ==
    \A f \in finished :
        (f.corruption = "none" /\ f.pass = SealedOf(f).pass)
            => (f.ok /\ f.value = SealedOf(f).plain)

\* C2 as claimed: decrypting an envelope as it was returned, with any
\* passphrase other than the one it was sealed under, ends in the
\* authentication failure
C2_AnyOtherPassphraseFails ==
    \A f \in finished :
        (f.corruption = "none" /\ f.pass # SealedOf(f).pass)
            => (~f.ok /\ f.message = AuthenticationFailure)

\* C2 as amended: decrypting an envelope as it was returned, with a passphrase
\* whose HMAC key block (UTF-8 bytes, zero padded) differs from that of the
\* sealing passphrase, ends in the authentication failure
C2_OtherKeyBlockFails ==
    \A f \in finished :
        (f.corruption = "none" /\ KeyBlockOf(f.pass) # KeyBlockOf(SealedOf(f).pass))
            => (~f.ok /\ f.message = AuthenticationFailure)

\* a decrypt call with a passphrase of another key block has failed
C2_Witness ==
    \E f \in finished :
        /\ f.corruption = "none"
        /\ KeyBlockOf(f.pass) # KeyBlockOf(SealedOf(f).pass)
        /\ ~f.ok

\* C3: every failed decrypt call, whatever made it fail (wrong passphrase,
\* tampered or malformed ciphertext, iv or salt), reports the same error
C3_OneErrorForEveryFailure ==
    \A f \in finished : ~f.ok => f.message = AuthenticationFailure

\* C4: the salt handed to deriveKey and the iv handed to the cipher by an
\* encryption call were drawn from the random source by that same call, and
\* no drawn value is used by two calls
C4_OwnSaltAndIV ==
    /\ \A u \in uses :
           \E i \in 1..Len(draws) :
               draws[i].bytes = u.bytes /\ draws[i].inst = u.inst
    /\ \A u, v \in uses : u.bytes = v.bytes => u.inst = v.inst

\* two encryption calls are in flight, both past their key derivation
C4_Witness ==
    \E c, d \in Slots :
        /\ c # d
        /\ calls[c].op \in {"encryptString", "encryptFile"}
        /\ calls[d].op \in {"encryptString", "encryptFile"}
        /\ calls[c].pc = "cipher"
        /\ calls[d].pc = "cipher"
        /\ \E u \in uses : u.inst = calls[c].inst
        /\ \E u \in uses : u.inst = calls[d].inst

-----------------------------------------------------------------------------
(* String functions of the platform used by the signer *)

\* String.prototype.slice(from, to), 0 <= from <= to
Slice(s, from, to) ==
    SubSeq(s, from + 1, IF to < Len(s) THEN to ELSE Len(s))

\* s.replace(/[...]/g, ''): s without the characters of the set
RemoveAll(s, set) ==
    Concat([i \in 1..Len(s) |->
               IF SubSeq(s, i, i) \in set THEN "" ELSE SubSeq(s, i, i)])

\* s.replace(/pat/g, rep) for a literal pattern
RECURSIVE ReplaceAll(_, _, _)
ReplaceAll(s, pat, rep) ==
    IF Len(s) < Len(pat) THEN s
    ELSE IF SubSeq(s, 1, Len(pat)) = pat
    THEN rep \o ReplaceAll(SubSeq(s, Len(pat) + 1, Len(s)), pat, rep)
    ELSE SubSeq(s, 1, 1) \o ReplaceAll(SubSeq(s, 2, Len(s)), pat, rep)

\* the first position (from 1) at which pat occurs in s, 0 if it does not
IndexOf(s, pat) ==
    LET hits == {i \in 1..(Len(s) - Len(pat) + 1) :
                    SubSeq(s, i, i + Len(pat) - 1) = pat}
    IN IF hits = {} THEN 0
       ELSE CHOOSE i \in hits : \A j \in hits : i <= j

\* the first position at which a character of the set occurs, Len(s) + 1 if none
FirstOf(s, set) ==
    LET hits == {i \in 1..Len(s) : SubSeq(s, i, i) \in set}
    IN IF hits = {} THEN Len(s) + 1
       ELSE CHOOSE i \in hits : \A j \in hits : i <= j

RECURSIVE Split(_, _)
Split(s, sep) ==
    LET i == IndexOf(s, sep) IN
    IF i = 0 THEN <<s>>
    ELSE <<SubSeq(s, 1, i - 1)>> \o Split(SubSeq(s, i + Len(sep), Len(s)), sep)

\* n written in decimal with at least the given number of digits
RECURSIVE Digits(_, _)
Digits(n, width) ==
    IF n < 10 /\ width <= 1 THEN SubSeq(HexDigits, n + 1, n + 1)
    ELSE Digits(n \div 10, width - 1) \o SubSeq(HexDigits, (n % 10) + 1, (n % 10) + 1)

\* Number.prototype.toString() of a non negative integer
NumberToString(n) == Digits(n, 1)

\* the civil date of a day number counted from 1970-01-01
CivilFromDays(days) ==
    LET z == days + 719468
        era == z \div 146097
        doe == z - (era * 146097)
        yoe == (doe - (doe \div 1460) + (doe \div 36524) - (doe \div 146096)) \div 365
        doy == doe - ((365 * yoe) + (yoe \div 4) - (yoe \div 100))
        mp == ((5 * doy) + 2) \div 153
        d == doy - (((153 * mp) + 2) \div 5) + 1
        m == IF mp < 10 THEN mp + 3 ELSE mp - 9
    IN [year |-> (yoe + (era * 400)) + (IF m <= 2 THEN 1 ELSE 0),
        month |-> m, day |-> d]

\* Date.prototype.toISOString() of the instant t = [s, ms] (years 0 .. 9999)
ToISOString(t) ==
    LET date == CivilFromDays(t.s \div 86400)
        secs == t.s % 86400
    IN Digits(date.year, 4) \o "-" \o Digits(date.month, 2) \o "-"
           \o Digits(date.day, 2) \o "T" \o Digits(secs \div 3600, 2) \o ":"
           \o Digits((secs \div 60) % 60, 2) \o ":" \o Digits(secs % 60, 2)
           \o "." \o Digits(t.ms, 3) \o "Z"

\* encodeURIComponent(s) for ASCII s: everything is escaped but
\* A-Z a-z 0-9 - _ . ! ~ * ' ( )
EncodeURIComponent(s) ==
    Concat([i \in 1..Len(s) |->
        LET c == SubSeq(s, i, i) IN
        IF IsAlnum(c) \/ c \in {"-", "_", ".", "!", "~", "*", "'", "(", ")"}
        THEN c ELSE PercentEscape(c)])

\* the application/x-www-form-urlencoded serializer of URLSearchParams:
\* everything is escaped but A-Z a-z 0-9 * - . _ ; a space becomes +
FormEncode(s) ==
    Concat([i \in 1..Len(s) |->
        LET c == SubSeq(s, i, i) IN
        IF IsAlnum(c) \/ c \in {"*", "-", ".", "_"} THEN c
        ELSE IF c = " " THEN "+"
        ELSE PercentEscape(c)])

\* URLSearchParams.prototype.toString(): the pairs in insertion order
URLSearchParamsToString(params) ==
    JoinWith([i \in 1..Len(params) |->
                 FormEncode(params[i][1]) \o "=" \o FormEncode(params[i][2])], "&")

\* new URL(url).host for a url written scheme://authority...
UrlHost(url) ==
    LET rest == SubSeq(url, IndexOf(url, "://") + 3, Len(url))
    IN SubSeq(rest, 1, FirstOf(rest, {"/", "?", "#"}) - 1)

LowerHexDigits == "0123456789abcdef"

\* Array.from(bytes).map(b => b.toString(16).padStart(2, '0')).join('')
HexOfBytes(b) ==
    Concat([i \in 1..Len(b) |->
               SubSeq(LowerHexDigits, (b[i] \div 16) + 1, (b[i] \div 16) + 1)
                   \o SubSeq(LowerHexDigits, (b[i] % 16) + 1, (b[i] % 16) + 1)])

\* SHA-256 and HMAC-SHA-256 as collision free functions: the table holds the
\* inputs hashed so far and the digest of the n-th of them is the 32 bytes
\* 00 .. 00 n
HashTableWith(table, input) ==
    IF \E i \in 1..Len(table) : table[i] = input THEN table
    ELSE Append(table, input)

DigestIn(table, input) ==
    LET n == CHOOSE i \in 1..Len(table) : table[i] = input
    IN [j \in 1..32 |-> IF j = 32 THEN n ELSE 0]

Sha256Input(data) == [alg |-> "SHA-256", keyKind |-> "", key |-> "", data |-> data]
\* the key of hmacSha256 is a string (encoded as UTF-8) or an ArrayBuffer
HmacTextKeyInput(key, data) ==
    [alg |-> "HMAC", keyKind |-> "text", key |-> key, data |-> data]
HmacBufferKeyInput(key, data) ==
    [alg |-> "HMAC", keyKind |-> "buffer", key |-> HexOfBytes(key), data |-> data]

-----------------------------------------------------------------------------
(* The SigV4 signer of S3ClientSSE (S3Client signs with the same code) *)

algorithm == "AWS4-HMAC-SHA256"
serviceName == "s3"

\* the endpoint as configured: any string new URL() accepts
Endpoints == {"https://s3.example.com", "https://s3.example.com/"}
SignerConfigs ==
    {[s3_endpoint |-> e, s3_region |-> "us-east-1", s3_bucket |-> "bkt",
      s3_access_key |-> "AKID", s3_secret_key |-> "SECRET"] : e \in Endpoints}
ObjectKeys == {"a/b.jpg", "it's(1)!.jpg"}
Methods == {"GET", "PUT"}
Expiries == {3600}
Prefixes == {"", "photos/"}

\* the wall clock at the start, and by how many ms it advances in one step
ClockStart == [s |-> 1369439999, ms |-> 500]
TickSteps == {600}

SignSlots == 1..MaxSigning
NotSigning == [kind |-> "idle"]

\* a timestamp taken once when the signer was constructed
DateString_cached(t) ==
    RemoveAll(Slice(ToISOString(ClockStart), 0, 19), {"-", ":"}) \o "Z"

\* now.toISOString().slice(0, 19).replace(/[-:]/g, '') + 'Z'
DateString(t) == RemoveAll(Slice(ToISOString(t), 0, 19), {"-", ":"}) \o "Z"

\* `/${bucket}/${encodeURIComponent(key).replace(/%2F/g, '/')}`
CanonicalUri(key) ==
    "/" \o config.s3_bucket \o "/"
        \o ReplaceAll(EncodeURIComponent(key), "%2F", "/")

\* `${dateStamp}/${region}/${serviceName}/aws4_request`
CredentialScope(dateStamp) ==
    dateStamp \o "/" \o config.s3_region \o "/" \o serviceName \o "/aws4_request"

\* the query parameters of a presigned URL, in insertion order
PresignQueryParams(dateString, dateStamp, expiresIn) ==
    << <<"X-Amz-Algorithm", algorithm>>,
       <<"X-Amz-Credential",
         config.s3_access_key \o "/" \o dateStamp \o "/" \o config.s3_region
             \o "/" \o serviceName \o "/aws4_request">>,
       <<"X-Amz-Date", dateString>>,
       <<"X-Amz-Expires", NumberToString(expiresIn)>>,
       <<"X-Amz-SignedHeaders", "host">> >>

\* the query parameters of listObjects, in insertion order
ListQueryParams(prefix, maxKeys) ==
    << <<"list-type", "2">>,
       <<"prefix", prefix>>,
       <<"max-keys", NumberToString(maxKeys)>> >>

\* a canonical request that leaves the method out
CanonicalRequest_noMethod(method, uri, query, headers, signedHeaders, payloadHash) ==
    JoinWith(<<uri, query, headers, signedHeaders, payloadHash>>, "\n")

\* [method, uri, query, headers, signedHeaders, payloadHash].join('\n')
CanonicalRequest(method, uri, query, headers, signedHeaders, payloadHash) ==
    JoinWith(<<method, uri, query, headers, signedHeaders, payloadHash>>, "\n")

\* [algorithm, dateString, credentialScope, hash].join('\n')
StringToSign(dateString, credentialScope, hash) ==
    JoinWith(<<algorithm, dateString, credentialScope, hash>>, "\n")

\* the date stamp of the clock at the time the signature is calculated
SigningDateStamp_reread(call) == Slice(DateString(now), 0, 8)

\* the dateStamp argument of calculateSignature: the const of the call
SigningDateStamp(call) == call.dateStamp

\* calculateSignature(stringToSign, dateStamp): the HMAC cascade. The four
\* awaits in it read only this.config, which nothing assigns after the
\* constructor, so the cascade is one step.
CalculateSignature(table, stringToSign, dateStamp) ==
    LET i1 == HmacTextKeyInput("AWS4" \o config.s3_secret_key, dateStamp)
        t1 == HashTableWith(table, i1)
        kDate == DigestIn(t1, i1)
        i2 == HmacBufferKeyInput(kDate, config.s3_region)
        t2 == HashTableWith(t1, i2)
        kRegion == DigestIn(t2, i2)
        i3 == HmacBufferKeyInput(kRegion, serviceName)
        t3 == HashTableWith(t2, i3)
        kService == DigestIn(t3, i3)
        i4 == HmacBufferKeyInput(kService, "aws4_request")
        t4 == HashTableWith(t3, i4)
        kSigning == DigestIn(t4, i4)
        i5 == HmacBufferKeyInput(kSigning, stringToSign)
        t5 == HashTableWith(t4, i5)
    IN [table |-> t5,
        signature |-> HexOfBytes(DigestIn(t5, i5)),
        keyInputs |-> <<i1.key, i1.data, i2.data, i3.data, i4.data>>]

NewSigning(kind, method, key, uri, query, headers, signedHeaders, dateString) ==
    [kind |-> kind, pc |-> "sha256", inst |-> nSigned + 1, readAt |-> now,
     method |-> method, key |-> key, canonicalUri |-> uri,
     canonicalQueryString |-> query, signedHeaders |-> signedHeaders,
     host |-> UrlHost(config.s3_endpoint),
     dateString |-> dateString, dateStamp |-> Slice(dateString, 0, 8),
     canonicalRequest |->
         CanonicalRequest(method, uri, query, headers, signedHeaders,
                          "UNSIGNED-PAYLOAD"),
     credentialScope |-> CredentialScope(Slice(dateString, 0, 8)),
     stringToSign |-> ""]

\* generatePresignedUrl(key, method, expiresIn), up to its first await
PresignBegin(c, key, method, expiresIn) ==
    /\ signing[c].kind = "idle"
    /\ nSigned < MaxSigned
    /\ nSigned' = nSigned + 1
    /\ LET dateString == DateString(now)
           dateStamp == Slice(dateString, 0, 8)
           canonicalQueryString ==
               URLSearchParamsToString(
                   PresignQueryParams(dateString, dateStamp, expiresIn))
           canonicalHeaders == "host:" \o UrlHost(config.s3_endpoint) \o "\n"
       IN signing' = [signing EXCEPT ![c] =
              NewSigning("presign", method, key, CanonicalUri(key),
                         canonicalQueryString, canonicalHeaders, "host",
                         dateString)]
    /\ UNCHANGED <<now, config, digests, artifacts, nTicks>>

\* generateAuthHeaders(method, path, queryParams), up to its first await
GenerateAuthHeaders(c, method, path, queryParams) ==
    /\ signing[c].kind = "idle"
    /\ nSigned < MaxSigned
    /\ nSigned' = nSigned + 1
    /\ LET dateString == DateString(now)
           canonicalQueryString == URLSearchParamsToString(queryParams)
           canonicalHeaders ==
               "host:" \o UrlHost(config.s3_endpoint) \o "\nx-amz-date:"
                   \o dateString \o "\n"
       IN signing' = [signing EXCEPT ![c] =
              NewSigning("authHeaders", method, "", path, canonicalQueryString,
                         canonicalHeaders, "host;x-amz-date", dateString)]
    /\ UNCHANGED <<now, config, digests, artifacts, nTicks>>

\* listObjects(prefix, maxKeys) up to the await of its auth headers
ListObjects(c, prefix, maxKeys) ==
    GenerateAuthHeaders(c, "GET", "/" \o config.s3_bucket,
                        ListQueryParams(prefix, maxKeys))

\* testConnection(): the signing of its authenticated request
TestConnection(c) ==
    GenerateAuthHeaders(c, "GET", "/" \o config.s3_bucket, <<>>)

\* await this.sha256(canonicalRequest) resolves, the string to sign is
\* joined and calculateSignature is called
SignHash(c) ==
    /\ signing[c].kind \in {"presign", "authHeaders"}
    /\ signing[c].pc = "sha256"
    /\ LET call == signing[c]
           input == Sha256Input(call.canonicalRequest)
           table == HashTableWith(digests, input)
       IN /\ digests' = table
          /\ signing' = [signing EXCEPT
                 ![c].stringToSign =
                     StringToSign(call.dateString, call.credentialScope,
                                  HexOfBytes(DigestIn(table, input))),
                 ![c].pc = "signature"]
    /\ UNCHANGED <<now, config, artifacts, nSigned, nTicks>>

Artifact(call, sig, url, headers) ==
    [kind |-> call.kind, inst |-> call.inst, readAt |-> call.readAt,
     method |-> call.method, key |-> call.key,
     dateString |-> call.dateString, dateStamp |-> call.dateStamp,
     canonicalUri |-> call.canonicalUri,
     canonicalQueryString |-> call.canonicalQueryString,
     canonicalRequest |-> call.canonicalRequest,
     credentialScope |-> call.credentialScope,
     stringToSign |-> call.stringToSign,
     keyInputs |-> sig.keyInputs, signature |-> sig.signature,
     url |-> url, headers |-> headers]

\* await this.calculateSignature(...) resolves and generatePresignedUrl
\* returns `${endpoint}${canonicalUri}?${canonicalQueryString}&X-Amz-Signature=...`
PresignFinish(c) ==
    /\ signing[c].kind = "presign"
    /\ signing[c].pc = "signature"
    /\ LET call == signing[c]
           sig == CalculateSignature(digests, call.stringToSign,
                                     SigningDateStamp(call))
           finalQueryString ==
               call.canonicalQueryString \o "&X-Amz-Signature=" \o sig.signature
           url == config.s3_endpoint \o call.canonicalUri \o "?" \o finalQueryString
       IN /\ digests' = sig.table
          /\ artifacts' = artifacts \cup
                 {Artifact(call, sig, url,
                           [Authorization |-> "", XAmzDate |-> "", Host |-> ""])}
    /\ signing' = [signing EXCEPT ![c] = NotSigning]
    /\ UNCHANGED <<now, config, nSigned, nTicks>>

\* await this.calculateSignature(...) resolves and generateAuthHeaders
\* returns the Authorization, X-Amz-Date and Host headers
AuthHeadersFinish(c) ==
    /\ signing[c].kind = "authHeaders"
    /\ signing[c].pc = "signature"
    /\ LET call == signing[c]
           sig == CalculateSignature(digests, call.stringToSign,
                                     SigningDateStamp(call))
           authorization ==
               algorithm \o " Credential=" \o config.s3_access_key \o "/"
                   \o call.credentialScope \o ", SignedHeaders="
                   \o call.signedHeaders \o ", Signature=" \o sig.signature
       IN /\ digests' = sig.table
          /\ artifacts' = artifacts \cup
                 {Artifact(call, sig, "",
                           [Authorization |-> authorization,
                            XAmzDate |-> call.dateString,
                            Host |-> call.host])}
    /\ signing' = [signing EXCEPT ![c] = NotSigning]
    /\ UNCHANGED <<now, config, nSigned, nTicks>>

\* the wall clock advances
Tick(d) ==
    /\ nTicks < MaxTicks
    /\ nTicks' = nTicks + 1
    /\ now' = [s |-> now.s + ((now.ms + d) \div 1000), ms |-> (now.ms + d) % 1000]
    /\ UNCHANGED <<config, signing, digests, artifacts, nSigned>>

\* a signer on which no call has been made yet
SignerFresh ==
    /\ now = ClockStart
    /\ signing = [c \in SignSlots |-> NotSigning]
    /\ digests = <<>>
    /\ artifacts = {}
    /\ nSigned = 0
    /\ nTicks = 0

SignInit ==
    /\ config \in SignerConfigs
    /\ SignerFresh

\* the slot a new signing call is started in: the first idle one
FreeSignSlot ==
    IF \E c \in SignSlots : signing[c].kind = "idle"
    THEN {CHOOSE c \in SignSlots :
              /\ signing[c].kind = "idle"
              /\ \A d \in SignSlots : signing[d].kind = "idle" => c <= d}
    ELSE {}

\* one signing call at a time, over all inputs, while the clock advances
SignNext ==
    \/ \E key \in ObjectKeys, method \in Methods, expiresIn \in Expiries :
           PresignBegin(1, key, method, expiresIn)
    \/ \E prefix \in Prefixes : ListObjects(1, prefix, 1000)
    \/ TestConnection(1)
    \/ SignHash(1)
    \/ PresignFinish(1)
    \/ AuthHeadersFinish(1)
    \/ \E d \in TickSteps : Tick(d)

\* concurrent signing calls, interleaved at their awaits
SignConcNext ==
    \/ \E c \in FreeSignSlot : PresignBegin(c, "a/b.jpg", "GET", 3600)
    \/ \E c \in FreeSignSlot : TestConnection(c)
    \/ \E c \in SignSlots : SignHash(c)
    \/ \E c \in SignSlots : PresignFinish(c)
    \/ \E c \in SignSlots : AuthHeadersFinish(c)
    \/ \E d \in TickSteps : Tick(d)

-----------------------------------------------------------------------------
(* MD5 (class MD5).  A 32-bit word is <<high 16 bits, low 16 bits>>, so    *)
(* that every intermediate value stays below 2^31.                         *)

Pow2(n) == 2 ^ n

\* one bit of a & b, a | b and a ^ b, by the bits of a and b
AndBit == [x \in 0..1 |-> [y \in 0..1 |-> x * y]]
OrBit == [x \in 0..1 |-> [y \in 0..1 |-> IF x + y > 0 THEN 1 ELSE 0]]
XorBit == [x \in 0..1 |-> [y \in 0..1 |-> (x + y) % 2]]

\* a bitwise operation on two 16-bit values: bit k of the result is
\* table[bit k of a][bit k of b]
Bits16(table, a, b) ==
    Only({v[0] + v[1] + v[2] + v[3] + v[4] + v[5] + v[6] + v[7] + v[8] + v[9]
              + v[10] + v[11] + v[12] + v[13] + v[14] + v[15] :
          v \in {[k \in 0..15 |->
                     table[(a \div Pow2(k)) % 2][(b \div Pow2(k)) % 2] * Pow2(k)]}})

\* a & b, a | b, a ^ b and ~a on 32-bit words
WordAnd(a, b) ==
    Only({<<Bits16(AndBit, x[1], y[1]), Bits16(AndBit, x[2], y[2])>> :
          x \in {a}, y \in {b}})
WordOr(a, b) ==
    Only({<<Bits16(OrBit, x[1], y[1]), Bits16(OrBit, x[2], y[2])>> :
          x \in {a}, y \in {b}})
WordXor(a, b) ==
    Only({<<Bits16(XorBit, x[1], y[1]), Bits16(XorBit, x[2], y[2])>> :
          x \in {a}, y \in {b}})
WordNot(a) == Only({<<65535 - x[1], 65535 - x[2]>> : x \in {a}})

\* addUint32(a, b): (a + b) >>> 0
AddUint32(a, b) ==
    Only({<<(x[1] + y[1] + ((x[2] + y[2]) \div 65536)) % 65536,
            (x[2] + y[2]) % 65536>> : x \in {a}, y \in {b}})

\* leftRotate with the bits shifted out on the left lost
LeftRotate_shiftOnly(value, amount) ==
    Only({LET v == IF amount >= 16 THEN <<x[2], 0>> ELSE x
              s == amount % 16
          IN <<((v[1] * Pow2(s)) % 65536) + (v[2] \div Pow2(16 - s)),
               (v[2] * Pow2(s)) % 65536>> : x \in {value}})

\* leftRotate(value, amount): ((value << amount) | (value >>> (32 - amount))) >>> 0
LeftRotate(value, amount) ==
    Only({LET v == IF amount >= 16 THEN <<x[2], x[1]>> ELSE x
              s == amount % 16
          IN <<((v[1] * Pow2(s)) % 65536) + (v[2] \div Pow2(16 - s)),
               ((v[2] * Pow2(s)) % 65536) + (v[1] \div Pow2(16 - s))>> :
          x \in {value}})

\* getK(i), i from 0
GetK(i) ==
    LET k == <<
        <<55146, 42104>>, <<59591, 46934>>, <<9248, 28891>>, <<49597, 52974>>,
        <<62844, 4015>>, <<18311, 50730>>, <<43056, 17939>>, <<64838, 38145>>,
        <<27008, 39128>>, <<35652, 63407>>, <<65535, 23473>>, <<35164, 55230>>,
        <<27536, 4386>>, <<64920, 29075>>, <<42617, 17294>>, <<18868, 2081>>,
        <<63006, 9570>>, <<49216, 45888>>, <<9822, 23121>>, <<59830, 51114>>,
        <<54831, 4189>>, <<580, 5203>>, <<55457, 59009>>, <<59347, 64456>>,
        <<8673, 52710>>, <<49975, 2006>>, <<62677, 3463>>, <<17754, 5357>>,
        <<43491, 59653>>, <<64751, 41976>>, <<26479, 729>>, <<36138, 19594>>,
        <<65530, 14658>>, <<34673, 63105>>, <<28061, 24866>>, <<64997, 14348>>,
        <<42174, 59972>>, <<19422, 53161>>, <<63163, 19296>>, <<48831, 48240>>,
        <<10395, 32454>>, <<60065, 10234>>, <<54511, 12421>>, <<1160, 7429>>,
        <<55764, 53305>>, <<59099, 39397>>, <<8098, 31992>>, <<50348, 22117>>,
        <<62505, 8772>>, <<17194, 65431>>, <<43924, 9127>>, <<64659, 41017>>,
        <<25947, 22979>>, <<36620, 52370>>, <<65519, 62589>>, <<34180, 24017>>,
        <<28584, 32335>>, <<65068, 59104>>, <<41729, 17172>>, <<19976, 4513>>,
        <<63315, 32386>>, <<48442, 62005>>, <<10967, 53947>>, <<60294, 54161>> >>
    IN k[i + 1]

\* getR(i), i from 0
GetR(i) ==
    LET r == <<7, 12, 17, 22, 7, 12, 17, 22, 7, 12, 17, 22, 7, 12, 17, 22,
               5, 9, 14, 20, 5, 9, 14, 20, 5, 9, 14, 20, 5, 9, 14, 20,
               4, 11, 16, 23, 4, 11, 16, 23, 4, 11, 16, 23, 4, 11, 16, 23,
               6, 10, 15, 21, 6, 10, 15, 21, 6, 10, 15, 21, 6, 10, 15, 21>>
    IN r[i + 1]

\* this.h of a new MD5
InitialH ==
    <<<<26437, 8961>>, <<61389, 43913>>, <<39098, 56574>>, <<4146, 21622>>>>

\* view.getUint32(at, true) on a byte sequence, at from 0
GetUint32LE(bytes, at) ==
    <<bytes[at + 3] + (256 * bytes[at + 4]), bytes[at + 1] + (256 * bytes[at + 2])>>

\* the four bytes view.setUint32(_, word, true) writes
Uint32LEBytes(word) ==
    <<word[2] % 256, word[2] \div 256, word[1] % 256, word[1] \div 256>>

\* one round of the main loop of processChunk on s = <<a, b, c, d>>
Round(w, i, s) ==
    LET a == s[1]
        b == s[2]
        c == s[3]
        d == s[4]
        f == IF i < 16 THEN WordOr(WordAnd(b, c), WordAnd(WordNot(b), d))
             ELSE IF i < 32 THEN WordOr(WordAnd(d, b), WordAnd(WordNot(d), c))
             ELSE IF i < 48 THEN WordXor(WordXor(b, c), d)
             ELSE WordXor(c, WordOr(b, WordNot(d)))
        g == IF i < 16 THEN i
             ELSE IF i < 32 THEN ((5 * i) + 1) % 16
             ELSE IF i < 48 THEN ((3 * i) + 5) % 16
             ELSE (7 * i) % 16
    IN <<d,
         AddUint32(b, LeftRotate(
             AddUint32(AddUint32(a, f), AddUint32(GetK(i), w[g + 1])),
             GetR(i))),
         b, c>>

\* the main loop of processChunk from round i up to round last
RECURSIVE Rounds(_, _, _, _)
Rounds(w, i, last, s) ==
    IF i = last THEN s
    ELSE Only({Rounds(w, i + 1, last, t) : t \in {Round(w, i, s)}})

\* processChunk(chunk) on the state h: the new this.h
ProcessChunk(h, chunk) ==
    Only({Only({Only({Only({Only({
        [i \in 1..4 |-> AddUint32(h0[i], q4[i])] :
            q4 \in {Rounds(w, 48, 64, q3)}}) :
            q3 \in {Rounds(w, 32, 48, q2)}}) :
            q2 \in {Rounds(w, 16, 32, q1)}}) :
            q1 \in {Rounds(w, 0, 16, h0)}}) :
        h0 \in {h}, w \in {[i \in 1..16 |-> GetUint32LE(chunk, 4 * (i - 1))]}})

\* paddingLen of updateBytes, with the remainder taken as a negative
\* operand leaves it
PaddingLen_noWrap(msgLen) ==
    LET r == 56 - ((msgLen + 1) % 64) IN IF r < 0 THEN 0 - ((0 - r) % 64) ELSE r % 64

\* paddingLen of updateBytes
PaddingLen(msgLen) == ((56 - ((msgLen + 1) % 64)) + 64) % 64

\* finalBytes of updateBytes
FinalBytes(bytes) ==
    LET msgLen == Len(bytes)
        msgBitLen == msgLen * 8
        paddingLen == PaddingLen(msgLen)
        totalLen == msgLen + 1 + paddingLen + 8
        lowWord == <<(msgBitLen \div 65536) % 65536, msgBitLen % 65536>>
        highWord == <<0, (msgBitLen \div 65536) \div 65536>>
    IN Only({[i \in 1..totalLen |->
                IF i <= msgLen THEN b[i]
                ELSE IF i = msgLen + 1 THEN 128
                ELSE IF i <= totalLen - 8 THEN 0
                ELSE IF i <= totalLen - 4
                THEN Uint32LEBytes(lowWord)[i - (totalLen - 8)]
                ELSE Uint32LEBytes(highWord)[i - (totalLen - 4)]] :
             b \in {bytes}})

\* the loop of updateBytes from offset i on: the chunks processed and this.h
RECURSIVE ProcessFrom(_, _, _, _)
ProcessFrom(finalBytes, i, h, chunks) ==
    IF i >= Len(finalBytes) THEN [h |-> h, chunks |-> chunks]
    ELSE LET chunk == SubSeq(finalBytes, i + 1,
                             IF i + 64 < Len(finalBytes) THEN i + 64
                             ELSE Len(finalBytes))
         IN Only({ProcessFrom(finalBytes, i + 64, newH, Append(chunks, chunk)) :
                  newH \in {ProcessChunk(h, chunk)}})

\* updateBytes(bytes) on a new MD5
UpdateBytes(bytes) ==
    Only({ProcessFrom(finalBytes, 0, InitialH, <<>>) :
          finalBytes \in {FinalBytes(bytes)}})

\* digest(): the 16 bytes of this.h
Digest(h) ==
    Only({Uint32LEBytes(x[1]) \o Uint32LEBytes(x[2]) \o Uint32LEBytes(x[3])
              \o Uint32LEBytes(x[4]) : x \in {h}})

\* MD5.hashBytes(bytes)
HashBytes(bytes) == Digest(UpdateBytes(bytes).h)

\* MD5.hash(data) of a string
Hash(data) == Digest(UpdateBytes(TextEncode(data)).h)

\* the byte message of length n the model hashes
Message(n) == [i \in 1..n |-> (i + n) % 256]

\* the strings the model hashes (the test suite of RFC 1321, A.5)
MD5Texts ==
    <<"", "a", "abc", "message digest", "abcdefghijklmnopqrstuvwxyz",
      "ABCDEFGHIJKLMNOPQRSTUVWXYZabcdefghijklmnopqrstuvwxyz0123456789",
      "12345678901234567890123456789012345678901234567890123456789012345678901234567890">>

\* the UTF-16 code units of an ASCII text
CodeUnits(text) == [i \in 1..Len(text) |-> Ord(SubSeq(text, i, i))]

\* a call of MD5.hashBytes or MD5.hash not yet made
MD5Inputs ==
    {[call |-> "hashBytes", n |-> n, data |-> Message(n)] : n \in 0..MaxMsgLen}
        \cup {[call |-> "hash", n |-> k, data |-> CodeUnits(MD5Texts[k])] :
                  k \in 1..Len(MD5Texts)}

MD5Init == \E input \in MD5Inputs :
    md5 = [input |-> input, done |-> FALSE, chunks |-> <<>>, digest |-> <<>>]

\* MD5.hashBytes(bytes): new MD5().updateBytes(bytes).digest()
MD5HashBytes ==
    /\ ~md5.done
    /\ md5.input.call = "hashBytes"
    /\ \E run \in {UpdateBytes(md5.input.data)} :
           md5' = [md5 EXCEPT !.done = TRUE, !.chunks = run.chunks,
                              !.digest = Digest(run.h)]

\* MD5.hash(data): new MD5().update(data).digest()
MD5Hash ==
    /\ ~md5.done
    /\ md5.input.call = "hash"
    /\ \E run \in {UpdateBytes(TextEncode(md5.input.data))} :
           md5' = [md5 EXCEPT !.done = TRUE, !.chunks = run.chunks,
                              !.digest = Digest(run.h)]

MD5Next == MD5HashBytes \/ MD5Hash

-----------------------------------------------------------------------------
(* S3ClientSSE: the customer key (SSE-C) and the requests that carry it *)

\* the passphrases a signer is configured with (config.encryption_key)
SSEPassphrases ==
    {"correct horse battery staple 42!", "Xk7!mq9zPw2r"}
\* the photos given to uploadFile: File objects
Photos ==
    {[name |-> "a.jpg", type |-> "image/jpeg", bytes |-> <<255, 216, 7>>],
     [name |-> "b", type |-> "", bytes |-> <<9>>]}
\* the object keys given to uploadFile / downloadFile
TransferKeys == {"a/b.jpg"}

\* crypto.subtle.digest('SHA-256', data) of a byte buffer, the buffer written
\* in hex
Sha256BytesInput(data) ==
    [alg |-> "SHA-256", keyKind |-> "bytes", key |-> "", data |-> HexOfBytes(data)]

\* calculateMD5(key) taken over the base64 text of the key
CalculateMD5_ofKeyText(key) == Btoa(HashBytes(CodeUnits(Btoa(key))))

\* calculateMD5(key): btoa(String.fromCharCode(...MD5.hashBytes(key)))
CalculateMD5(key) == Btoa(HashBytes(key))

\* getSSEHeaders() once this.sseKey has resolved to key
SSEHeaders(key) ==
    [algorithm |-> "AES256", key |-> Btoa(key), keyMD5 |-> CalculateMD5(key)]

\* the config objects handed to new S3ClientSSE(config): each field is the
\* configured value or the empty string
GivenConfigs ==
    [s3_endpoint : {"", "https://s3.example.com"},
     s3_region : {"", "us-east-1"},
     s3_bucket : {"", "bkt"},
     s3_access_key : {"", "AKID"},
     s3_secret_key : {"", "SECRET"},
     encryption_key : {"Xk7!mq9zPw2r"}]

\* this.config of the constructor: config.s3_endpoint || 'https://s3.amazonaws.com',
\* config.s3_region || 'us-east-1', the other fields as they are given
SSEConfig(cfg) ==
    [s3_endpoint |-> IF cfg.s3_endpoint = "" THEN "https://s3.amazonaws.com"
                     ELSE cfg.s3_endpoint,
     s3_region |-> IF cfg.s3_region = "" THEN "us-east-1" ELSE cfg.s3_region,
     s3_bucket |-> cfg.s3_bucket,
     s3_access_key |-> cfg.s3_access_key,
     s3_secret_key |-> cfg.s3_secret_key]

\* the constructor: this.sseKey = this.generateSSEKey(config.encryption_key),
\* a promise that is pending until the digest resolves
SSEConstructed(cfg) ==
    /\ given = cfg
    /\ sse = [encryption_key |-> cfg.encryption_key, resolved |-> FALSE,
              sseKey |-> <<>>]
    /\ sseHeaders = {}
    /\ nHeaders = 0
    /\ transfers = {}
    /\ requests = {}
    /\ cleanedUp = FALSE

\* a signer constructed from a complete configuration
SSEInit ==
    \E k \in SSEPassphrases :
        SSEConstructed([s3_endpoint |-> config.s3_endpoint,
                        s3_region |-> config.s3_region,
                        s3_bucket |-> config.s3_bucket,
                        s3_access_key |-> config.s3_access_key,
                        s3_secret_key |-> config.s3_secret_key,
                        encryption_key |-> k])

\* a signer constructed from any of the config objects
SSEInitGiven ==
    \E cfg \in GivenConfigs : config = SSEConfig(cfg) /\ SSEConstructed(cfg)

\* generateSSEKey: await crypto.subtle.digest('SHA-256', data) resolves
GenerateSSEKey ==
    /\ ~sse.resolved
    /\ LET input == Sha256BytesInput(TextEncode(CodeUnits(sse.encryption_key)))
           table == HashTableWith(digests, input)
       IN /\ digests' = table
          /\ sse' = [sse EXCEPT !.resolved = TRUE,
                                !.sseKey = DigestIn(table, input)]
    /\ UNCHANGED <<now, config, signing, artifacts, nSigned, nTicks>>
    /\ UNCHANGED <<sseHeaders, nHeaders, transfers, requests, cleanedUp, given>>

\* getSSEHeaders(): runs once await this.sseKey has a value
GetSSEHeaders ==
    /\ sse.resolved
    /\ nHeaders < MaxHeaderCalls
    /\ nHeaders' = nHeaders + 1
    /\ sseHeaders' = sseHeaders \cup
           {[call |-> nHeaders + 1, headers |-> SSEHeaders(sse.sseKey)]}
    /\ UNCHANGED <<sse, transfers, requests, cleanedUp, given>>
    /\ UNCHANGED signVars

\* uploadFile(file, key) up to the first await of generatePresignedUrl
SSEUploadBegin(c, file, key) ==
    /\ Cardinality(transfers) + Cardinality(requests) < MaxTransfers
    /\ PresignBegin(c, key, "PUT", 3600)
    /\ transfers' = transfers \cup
           {[inst |-> nSigned + 1, op |-> "upload", file |-> file, key |-> key]}
    /\ UNCHANGED <<sse, sseHeaders, nHeaders, requests, cleanedUp, given>>

\* downloadFile(key) up to the first await of generatePresignedUrl
SSEDownloadBegin(c, key) ==
    /\ Cardinality(transfers) + Cardinality(requests) < MaxTransfers
    /\ PresignBegin(c, key, "GET", 3600)
    /\ transfers' = transfers \cup
           {[inst |-> nSigned + 1, op |-> "download",
             file |-> [name |-> "", type |-> "", bytes |-> <<>>], key |-> key]}
    /\ UNCHANGED <<sse, sseHeaders, nHeaders, requests, cleanedUp, given>>

\* a request as it leaves the browser
Request(client, method, url, headers, contentType, body) ==
    [client |-> client, method |-> method, url |-> url, headers |-> headers,
     contentType |-> contentType, body |-> body]

\* no SSE-C headers on a request
NoSSEHeaders == [algorithm |-> "", key |-> "", keyMD5 |-> ""]

\* uploadFile after the presigned url and the SSE-C headers are there:
\* xhr.open('PUT', presignedUrl), the headers are set, xhr.send(file)
SSEUploadSend ==
    /\ sse.resolved
    /\ \E t \in transfers, a \in artifacts :
           /\ t.op = "upload"
           /\ a.inst = t.inst
           /\ requests' = requests \cup
                  {Request("S3ClientSSE", "PUT", a.url, SSEHeaders(sse.sseKey),
                           IF t.file.type = "" THEN "application/octet-stream"
                           ELSE t.file.type,
                           t.file.bytes)}
           /\ transfers' = transfers \ {t}
    /\ UNCHANGED <<sse, sseHeaders, nHeaders, cleanedUp, given>>
    /\ UNCHANGED signVars

\* downloadFile after the presigned url and the SSE-C headers are there:
\* fetch(presignedUrl, { headers: sseHeaders })
SSEDownloadFetch ==
    /\ sse.resolved
    /\ \E t \in transfers, a \in artifacts :
           /\ t.op = "download"
           /\ a.inst = t.inst
           /\ requests' = requests \cup
                  {Request("S3ClientSSE", "GET", a.url, SSEHeaders(sse.sseKey),
                           "", <<>>)}
           /\ transfers' = transfers \ {t}
    /\ UNCHANGED <<sse, sseHeaders, nHeaders, cleanedUp, given>>
    /\ UNCHANGED signVars

\* S3PhotoBackupApp.cleanup() on page unload: it logs and touches no key
AppCleanup ==
    /\ ~cleanedUp
    /\ cleanedUp' = TRUE
    /\ UNCHANGED <<sse, sseHeaders, nHeaders, transfers, requests, given>>
    /\ UNCHANGED signVars

\* S3ClientSSE calls, one signing at a time, until the page is left
SSENext ==
    \/ ~cleanedUp /\ GenerateSSEKey
    \/ ~cleanedUp /\ GetSSEHeaders
    \/ \E file \in Photos, key \in TransferKeys :
           ~cleanedUp /\ SSEUploadBegin(1, file, key)
    \/ \E key \in TransferKeys : ~cleanedUp /\ SSEDownloadBegin(1, key)
    \/ ~cleanedUp /\ SignHash(1) /\ UNCHANGED sseVars
    \/ ~cleanedUp /\ PresignFinish(1) /\ UNCHANGED sseVars
    \/ ~cleanedUp /\ SSEUploadSend
    \/ ~cleanedUp /\ SSEDownloadFetch
    \/ AppCleanup

\* the uploads of one photo by an S3ClientSSE
SSEUploadNext ==
    \/ GenerateSSEKey
    \/ \E file \in Photos, key \in TransferKeys :
           file.type # "" /\ SSEUploadBegin(1, file, key)
    \/ SignHash(1) /\ UNCHANGED sseVars
    \/ PresignFinish(1) /\ UNCHANGED sseVars
    \/ SSEUploadSend

-----------------------------------------------------------------------------
(* ConfigManager: validation of a configuration *)

IsLower(c) == Ord(c) \in 97..122
IsUpper(c) == Ord(c) \in 65..90
IsDigit(c) == Ord(c) \in 48..57
ToLower(c) == IF IsUpper(c) THEN SubSeq("abcdefghijklmnopqrstuvwxyz", Ord(c) - 64, Ord(c) - 64)
              ELSE c

\* s.toLowerCase()
LowerCase(s) == Concat([i \in 1..Len(s) |-> ToLower(SubSeq(s, i, i))])

\* minLength and recommendedLength of validatePassphrase
minLength == 12
recommendedLength == 32

\* validatePassphrase(passphrase): score, strength, isValid and feedback
ValidatePassphrase(passphrase) ==
    LET n == Len(passphrase)
        chars == {SubSeq(passphrase, i, i) : i \in 1..n}
        one(b) == IF b THEN 1 ELSE 0
        tooShort == n < minLength
        repeats == \E i \in 1..(n - 2) :
                       /\ SubSeq(passphrase, i, i) = SubSeq(passphrase, i + 1, i + 1)
                       /\ SubSeq(passphrase, i, i) = SubSeq(passphrase, i + 2, i + 2)
        lower == LowerCase(passphrase)
        common == \E p \in {"123", "abc", "qwe"} : IndexOf(lower, p) # 0
        score == (IF tooShort THEN 0 ELSE IF n >= recommendedLength THEN 2 ELSE 1)
                     + one(\E c \in chars : IsLower(c))
                     + one(\E c \in chars : IsUpper(c))
                     + one(\E c \in chars : IsDigit(c))
                     + one(\E c \in chars : ~IsAlnum(c))
                     - one(repeats) - one(common)
    IN [score |-> IF score < 0 THEN 0 ELSE score,
        strength |-> IF score >= 5 THEN "strong"
                     ELSE IF score >= 3 THEN "medium" ELSE "weak",
        isValid |-> n >= minLength /\ score >= 3,
        feedback |->
            (IF tooShort
             THEN <<"Passphrase should be at least 12 characters long">>
             ELSE <<>>)
            \o (IF repeats THEN <<"Avoid repeating characters">> ELSE <<>>)
            \o (IF common THEN <<"Avoid common patterns">> ELSE <<>>)]

\* s.trim() === ''
IsBlank(s) == \A i \in 1..Len(s) : IsAsciiWhitespace(SubSeq(s, i, i))

\* new URL(s) does not throw: a scheme, and a host where the scheme needs one
UrlParses(s) ==
    LET colon == IndexOf(s, ":")
        scheme == LowerCase(SubSeq(s, 1, colon - 1))
        rest == SubSeq(s, colon + 1, Len(s))
        afterSlashes == SubSeq(rest, FirstOf(rest \o "x", {c \in {SubSeq(rest \o "x", i, i) : i \in 1..(Len(rest) + 1)} : c # "/"}), Len(rest))
    IN /\ colon > 1
       /\ IsLower(SubSeq(scheme, 1, 1))
       /\ \A i \in 1..Len(scheme) :
              LET c == SubSeq(scheme, i, i)
              IN IsLower(c) \/ IsDigit(c) \/ c \in {"+", "-", "."}
       /\ scheme \in {"http", "https", "ws", "wss", "ftp"} =>
              FirstOf(afterSlashes, {"/", "?", "#"}) > 1

\* /^[a-z0-9.-]{3,63}$/i.test(bucket)
BucketNameMatches(bucket) ==
    /\ Len(bucket) \in 3..63
    /\ \A i \in 1..Len(bucket) :
           LET c == SubSeq(bucket, i, i) IN IsAlnum(c) \/ c \in {".", "-"}

requiredFields ==
    <<"s3_endpoint", "s3_region", "s3_bucket", "s3_access_key", "s3_secret_key",
      "encryption_key">>

\* validateConfig(config): "" if it returns, else the message of the Error
ValidateConfig(cfg) ==
    LET missing == {i \in 1..Len(requiredFields) :
                       \/ requiredFields[i] \notin DOMAIN cfg
                       \/ cfg[requiredFields[i]] = ""
                       \/ IsBlank(cfg[requiredFields[i]])}
        keyValidation == ValidatePassphrase(cfg.encryption_key)
    IN IF missing # {}
       THEN "Missing or invalid required field: "
                \o requiredFields[CHOOSE i \in missing : \A j \in missing : i <= j]
       ELSE IF ~UrlParses(cfg.s3_endpoint) THEN "Invalid S3 endpoint URL"
       ELSE IF ~keyValidation.isValid
       THEN "Weak encryption key: " \o JoinWith(keyValidation.feedback, ", ")
       ELSE IF ~BucketNameMatches(cfg.s3_bucket)
       THEN "Invalid S3 bucket name format"
       ELSE ""

-----------------------------------------------------------------------------
(* ConfigManager: setting, importing, saving and clearing the configuration *)

storageKey == "s3-photo-backup-config"
configKey == "config-encryption-key-v1"

defaultConfig ==
    [s3_endpoint |-> "", s3_region |-> "", s3_bucket |-> "", s3_access_key |-> "",
     s3_secret_key |-> "", encryption_key |-> "", path_prefix |-> "photos/",
     version |-> "1.0"]

\* the property names of this.currentConfig, in the order of defaultConfig
configFields == requiredFields \o <<"path_prefix", "version">>

\* { ...this.defaultConfig, ...config } for a config object that holds the
\* required fields
WithDefaults(cfg) ==
    [name \in DOMAIN defaultConfig |->
        IF name \in DOMAIN cfg THEN cfg[name] ELSE defaultConfig[name]]

\* the config objects the calls are given: a complete one whose passphrase
\* has 32, 12 or 11 characters, one without a bucket, one whose endpoint is
\* no url
CompleteConfig(k) ==
    [s3_endpoint |-> "https://s3.example.com", s3_region |-> "us-east-1",
     s3_bucket |-> "bkt", s3_access_key |-> "AKID", s3_secret_key |-> "SECRET",
     encryption_key |-> k]
ManagerConfigs ==
    {CompleteConfig("correct horse battery staple 42!"),
     CompleteConfig("Xk7!mq9zPw2r"),
     CompleteConfig("Xk7!mq9zPw2"),
     [CompleteConfig("Xk7!mq9zPw2r") EXCEPT !.s3_bucket = ""],
     [CompleteConfig("Xk7!mq9zPw2r") EXCEPT !.s3_endpoint = "s3.example.com"]}

\* JSON.stringify of a string without a character that JSON escapes, as
\* UTF-16 code units
JsonString(s) == <<34>> \o CodeUnits(s) \o <<34>>

\* JSON.stringify(obj) of an object of strings, its properties in the order
\* of names
JsonStringify(obj, names) ==
    Only({<<123>> \o ConcatRange(parts, 1, Len(parts)) \o <<125>> :
          parts \in {[i \in 1..Len(names) |->
                         (IF i = 1 THEN <<>> ELSE <<44>>)
                             \o JsonString(names[i]) \o <<58>>
                             \o JsonString(obj[names[i]])]}})

\* the JSON text of each config object
JsonOfConfig == [cfg \in ManagerConfigs |-> JsonStringify(cfg, requiredFields)]

\* the string of a sequence of code units below 128
StringOfCodeUnits(u) ==
    Only({StrConcatRange(parts, 1, Len(parts)) :
          parts \in {[i \in 1..Len(u) |-> Chr(u[i])]}})

\* the member name of the object a JSON text stands for, for a text in
\* which no string holds an escape: the characters between "name":" and
\* the next quote
JsonMember(text, name) ==
    Only({IF at = 0 \/ \A i \in at..Len(text) : text[i] # 34
          THEN [has |-> FALSE, value |-> ""]
          ELSE [has |-> TRUE,
                value |-> StringOfCodeUnits(SubSeq(text, at,
                    (CHOOSE i \in at..Len(text) :
                         text[i] = 34 /\ \A j \in at..(i - 1) : text[j] # 34) - 1))] :
          at \in {Only({IF k = 0 THEN 0 ELSE k + Len(name) + 4 :
                        k \in {IndexOf(text, JsonString(name) \o <<58, 34>>)}})}})

\* JSON.parse(text) of the text of an object of strings: the object, or the
\* SyntaxError for a text that is no { ... }
JsonParse(text) ==
    IF Len(text) < 2 \/ text[1] # 123 \/ text[Len(text)] # 125
    THEN [ok |-> FALSE, value |-> defaultConfig]
    ELSE Only({[ok |-> TRUE,
                value |-> [name \in {configFields[i] :
                                        i \in {j \in 1..Len(configFields) :
                                                   members[j].has}} |->
                              members[CHOOSE i \in 1..Len(configFields) :
                                          configFields[i] = name].value]] :
               members \in {[i \in 1..Len(configFields) |->
                                JsonMember(text, configFields[i])]}})

\* the texts given to importConfig and importFromQRCode: the JSON of a
\* config object, or the text {
ImportTexts == {JsonOfConfig[cfg] : cfg \in ManagerConfigs} \cup {<<123>>}
\* what JSON.parse makes of each of them
ParsedImport == [text \in ImportTexts |-> JsonParse(text)]

\* JSON.stringify(storageData): the envelope, the version and Date.now()
StorageText(encrypted, t) ==
    <<123>> \o JsonString("encrypted") \o <<58>>
        \o JsonStringify(encrypted, <<"encryptedData", "salt", "iv">>)
        \o <<44>> \o JsonString("version") \o <<58>> \o JsonString("1.0")
        \o <<44>> \o JsonString("timestamp") \o <<58>>
        \o CodeUnits(NumberToString(t.s) \o Digits(t.ms, 3)) \o <<125>>

\* storageData.encrypted of JSON.parse(storedData)
StoredEnvelope(text) ==
    [encryptedData |-> JsonMember(text, "encryptedData").value,
     salt |-> JsonMember(text, "salt").value,
     iv |-> JsonMember(text, "iv").value]

NoCall == [op |-> "idle"]
NoItem == [present |-> FALSE, text |-> <<>>]

\* the constructor; nothing is stored yet
ConfigInit ==
    /\ manager = [currentConfig |-> defaultConfig, isConfigured |-> FALSE]
    /\ pending = NoCall
    /\ storage = NoItem
    /\ outcomes = {}
    /\ events = <<>>
    /\ nManager = 0

\* how a call ended: it returned (ok) what it returned, or threw an Error
\* with the message
ManagerOutcome(n, op, ok, message, returned) ==
    [op |-> op, n |-> n, ok |-> ok, message |-> message,
     returned |-> returned]

\* manager, storage and the number of events dispatched when a call starts
Before == [manager |-> manager, storage |-> storage, events |-> Len(events)]

\* a call that throws: new Error(message)
Throws(op, message) ==
    /\ outcomes' = outcomes \cup {ManagerOutcome(nManager + 1, op, FALSE, message, "")}
    /\ UNCHANGED <<manager, pending, storage, events>>
    /\ UNCHANGED cryptoVars

\* setConfig(config) called from op, up to the await in saveConfig: the
\* config is validated, then this.currentConfig and this.isConfigured are
\* set and the JSON of the current configuration is handed to encryptString
SetConfigFrom(op, cfg, wrap) ==
    IF ValidateConfig(cfg) # ""
    THEN Throws(op, wrap \o "Failed to set configuration: " \o ValidateConfig(cfg))
    ELSE /\ manager' = [currentConfig |-> WithDefaults(cfg), isConfigured |-> TRUE]
         /\ EncryptStringStart(1, JsonStringify(WithDefaults(cfg), configFields),
                               CodeUnits(configKey))
         /\ pending' = [op |-> op, config |-> cfg, inst |-> nCalls + 1,
                         before |-> Before]
         /\ UNCHANGED <<storage, outcomes, events>>

\* a ConfigManager call may start: none is waiting for its save
ManagerIdle ==
    /\ pending = NoCall
    /\ nManager < MaxManagerOps
    /\ nManager' = nManager + 1

\* setConfig(config)
SetConfig(cfg) ==
    /\ ManagerIdle
    /\ SetConfigFrom("setConfig", cfg, "")

\* importConfig(jsonString): JSON.parse, then setConfig; an error of
\* setConfig is thrown on as it is
ImportConfig(text) ==
    /\ ManagerIdle
    /\ IF ~ParsedImport[text].ok THEN Throws("importConfig", "Invalid JSON format")
       ELSE SetConfigFrom("importConfig", ParsedImport[text].value, "")

\* importFromQRCode(qrData): JSON.parse, validateConfig, then setConfig
ImportFromQRCode(text) ==
    /\ ManagerIdle
    /\ IF ~ParsedImport[text].ok
       THEN Throws("importFromQRCode", "Invalid QR code data format")
       ELSE IF ValidateConfig(ParsedImport[text].value) # ""
       THEN Throws("importFromQRCode",
                   "Failed to import configuration: "
                       \o ValidateConfig(ParsedImport[text].value))
       ELSE SetConfigFrom("importFromQRCode", ParsedImport[text].value,
                          "Failed to import configuration: ")

\* the rest of saveConfig and of the call that waits for it:
\* localStorage.setItem stores the envelope, 'configurationChanged' is
\* dispatched (and 'configurationImported' by importFromQRCode), the call
\* returns
SaveConfigStore ==
    /\ pending # NoCall
    /\ \E f \in sealed :
           /\ f.inst = pending.inst
           /\ storage' = [present |-> TRUE, text |-> StorageText(f.env, now)]
    /\ events' = events
           \o <<[type |-> "configurationChanged", detail |-> manager.currentConfig]>>
           \o (IF pending.op = "importFromQRCode"
               THEN <<[type |-> "configurationImported", detail |-> pending.config]>>
               ELSE <<>>)
    /\ outcomes' = outcomes \cup {ManagerOutcome(nManager, pending.op, TRUE, "", "")}
    /\ pending' = NoCall
    /\ UNCHANGED <<manager, nManager>>
    /\ UNCHANGED cryptoVars

\* the message of the error localStorage.setItem throws when the quota is
\* exceeded
QuotaMessage == "The quota has been exceeded."

\* saveConfig when localStorage.setItem throws: the error is wrapped by
\* saveConfig and by setConfig; what setConfig assigned stays
SaveConfigFail ==
    /\ pending # NoCall
    /\ \E f \in sealed : f.inst = pending.inst
    /\ outcomes' = outcomes \cup
           {ManagerOutcome(nManager, pending.op, FALSE,
                (IF pending.op = "importFromQRCode"
                 THEN "Failed to import configuration: " ELSE "")
                    \o "Failed to set configuration: Failed to save configuration: "
                    \o QuotaMessage, "")}
    /\ pending' = NoCall
    /\ UNCHANGED <<manager, storage, events, nManager>>
    /\ UNCHANGED cryptoVars

\* clearConfig()
ClearConfig ==
    /\ ManagerIdle
    /\ manager' = [currentConfig |-> defaultConfig, isConfigured |-> FALSE]
    /\ storage' = NoItem
    /\ events' = Append(events, [type |-> "configurationCleared",
                                 detail |-> defaultConfig])
    /\ UNCHANGED <<pending, outcomes>>
    /\ UNCHANGED cryptoVars

\* the (key, value) pairs updateConfigField is called with
FieldUpdates ==
    {<<"s3_bucket", "bkt2">>, <<"s3_secret_key", "SECRET2">>,
     <<"encryption_key", "short">>, <<"color", "red">>}

\* updateConfigField(key, value)
UpdateConfigField(key, value) ==
    /\ ManagerIdle
    /\ IF key \notin DOMAIN defaultConfig
       THEN Throws("updateConfigField", "Invalid configuration key: " \o key)
       ELSE SetConfigFrom("updateConfigField",
                          [manager.currentConfig EXCEPT ![key] = value], "")

\* the page is loaded again: new ConfigManager() and initialize(), up to
\* the await in loadConfig. With no item stored loadConfig returns false and
\* validateCurrentConfig finds the defaults invalid.
Initialize ==
    /\ ManagerIdle
    /\ manager' = [currentConfig |-> defaultConfig, isConfigured |-> FALSE]
    /\ IF ~storage.present
       THEN /\ outcomes' = outcomes \cup
                   {ManagerOutcome(nManager + 1, "initialize", TRUE, "", "false")}
            /\ UNCHANGED <<pending, storage, events>>
            /\ UNCHANGED cryptoVars
       ELSE /\ \E env \in {StoredEnvelope(storage.text)} :
                   DecryptStringStart(1, env, 0, "none", CodeUnits(configKey))
            /\ pending' = [op |-> "initialize", config |-> defaultConfig,
                           inst |-> nCalls + 1, before |-> Before]
            /\ UNCHANGED <<storage, outcomes, events>>

\* the rest of loadConfig and of initialize: the decrypted text is parsed
\* and validated and becomes the current configuration; when decryptString,
\* JSON.parse or validateConfig throws, the item is removed and initialize
\* returns false
LoadConfigFinish ==
    /\ pending # NoCall
    /\ pending.op = "initialize"
    /\ \E o \in finished :
           /\ o.inst = pending.inst
           /\ \E parsed \in {IF o.ok THEN JsonParse(o.value)
                              ELSE [ok |-> FALSE, value |-> defaultConfig]} :
                  IF parsed.ok /\ ValidateConfig(parsed.value) = ""
                  THEN /\ manager' = [currentConfig |-> WithDefaults(parsed.value),
                                      isConfigured |-> TRUE]
                       /\ outcomes' = outcomes \cup
                              {ManagerOutcome(nManager, "initialize", TRUE, "", "true")}
                       /\ UNCHANGED storage
                  ELSE /\ storage' = NoItem
                       /\ outcomes' = outcomes \cup
                              {ManagerOutcome(nManager, "initialize", TRUE, "", "false")}
                       /\ UNCHANGED manager
    /\ pending' = NoCall
    /\ UNCHANGED <<events, nManager>>
    /\ UNCHANGED cryptoVars

\* the properties the scripts of the application define on window
WindowGlobals ==
    {"configManager", "S3Client", "cryptoManager", "s3PhotoBackupApp", "MD5",
     "fileHandler", "uiManager", "S3ClientSSE"}

\* testConnection(): s3 says whether listObjects of the store would succeed
\* ("ok") or fail ("fails"); an error thrown inside becomes the message of
\* the result
ManagerTestConnection(s3) ==
    /\ ManagerIdle
    /\ LET result ==
               IF ~manager.isConfigured
               THEN [success |-> "false", message |-> "Configuration not set"]
               ELSE IF "s3Client" \notin WindowGlobals
               THEN [success |-> "false", message |-> "S3 client not available"]
               ELSE IF s3 = "fails"
               THEN [success |-> "false",
                     message |-> "S3 connection test failed: Failed to list objects"]
               ELSE [success |-> "true", message |-> "Connection successful"]
       IN outcomes' = outcomes \cup
              {[op |-> "testConnection", n |-> nManager + 1, ok |-> TRUE,
                message |-> result.message, returned |-> result.success,
                configured |-> manager.isConfigured, s3 |-> s3]}
    /\ UNCHANGED <<manager, pending, storage, events>>
    /\ UNCHANGED cryptoVars

\* the calls of the ConfigManager, one at a time
ConfigNext ==
    \/ \E cfg \in ManagerConfigs : SetConfig(cfg)
    \/ \E text \in ImportTexts : ImportConfig(text)
    \/ \E text \in ImportTexts : ImportFromQRCode(text)
    \/ \E update \in FieldUpdates : UpdateConfigField(update[1], update[2])
    \/ EncryptDeriveKey(1) /\ UNCHANGED cfgVars
    \/ EncryptFinish(1) /\ UNCHANGED cfgVars
    \/ SaveConfigStore
    \/ SaveConfigFail
    \/ ClearConfig
    \/ Initialize
    \/ DecryptDeriveKey(1) /\ UNCHANGED cfgVars
    \/ DecryptFinish(1) /\ UNCHANGED cfgVars
    \/ LoadConfigFinish
    \/ \E s3 \in {"ok", "fails"} : ManagerTestConnection(s3)

-----------------------------------------------------------------------------
(* FileHandler.batchProcess, the upload queue of UIManager,                *)
(* UIManager.startBatchUpload, S3Client.uploadFile and the object store    *)

\* the files the user selects: images of a supported type, one of which
\* cannot be decoded (loadImage rejects)
Selected ==
    {[name |-> "a.jpg", type |-> "image/jpeg", bytes |-> <<255, 216, 7>>,
      image |-> "ok"],
     [name |-> "c.png", type |-> "image/png", bytes |-> <<137, 80>>,
      image |-> "corrupt"]}
\* the lists of files handed to addFilesToQueue
FileLists ==
    {<<f>> : f \in Selected} \cup {<<f, g>> : f \in Selected, g \in Selected}

\* what Math.random().toString(36).substring(2, 8) may give
RandomSuffixes == {"k3x9qa", "7f0zzb"}
\* the answers of the store to a PUT (0: the request fails on the network)
PutStatuses == {200, 403, 0}
\* the concurrent startBatchUpload calls the model follows
BatchSlots == 1..MaxBatches

\* batchProcess that gives up at the first file that fails
BatchProcess_stopsAtError(files) ==
    LET bad == {i \in 1..Len(files) : files[i].image # "ok"}
        last == IF bad = {} THEN Len(files)
                ELSE CHOOSE i \in bad : \A j \in bad : i <= j
    IN [i \in 1..last |->
           IF files[i].image = "ok" THEN [file |-> files[i], status |-> "success", error |-> ""]
           ELSE [file |-> files[i], status |-> "error",
                 error |-> "Metadata extraction failed: Failed to load image"]]

\* batchProcess(files): for each file in turn extractMetadata and
\* generateThumbnail; what they throw is caught and makes the result of
\* that file an 'error'
BatchProcess(files) ==
    [i \in 1..Len(files) |->
        IF files[i].image = "ok"
        THEN [file |-> files[i], status |-> "success", error |-> ""]
        ELSE [file |-> files[i], status |-> "error",
              error |-> "Metadata extraction failed: Failed to load image"]]

\* filename.lastIndexOf('.'), from 0, or -1
LastIndexOf(s, c) ==
    LET at == {i \in 1..Len(s) : SubSeq(s, i, i) = c}
    IN IF at = {} THEN 0 - 1 ELSE (CHOOSE i \in at : \A j \in at : j <= i) - 1

\* generateObjectKey(filename) with the local time zone UTC:
\* year/month/day/ Date.now() _ random extension
GenerateObjectKey(filename, random) ==
    LET iso == ToISOString(now)
        lastDot == LastIndexOf(filename, ".")
        extension == IF lastDot > 0 THEN SubSeq(filename, lastDot + 1, Len(filename))
                     ELSE ""
    IN Slice(iso, 0, 4) \o "/" \o Slice(iso, 5, 7) \o "/" \o Slice(iso, 8, 10)
           \o "/" \o NumberToString(now.s) \o Digits(now.ms, 3) \o "_" \o random
           \o extension

\* this.config of new S3Client(config): path_prefix || 'photos/', with a /
\* put at its end when it has none
S3ClientConfig(cfg) ==
    LET prefix == IF cfg.path_prefix = "" THEN "photos/" ELSE cfg.path_prefix
    IN [s3_endpoint |-> cfg.s3_endpoint, s3_region |-> cfg.s3_region,
        s3_bucket |-> cfg.s3_bucket, s3_access_key |-> cfg.s3_access_key,
        s3_secret_key |-> cfg.s3_secret_key,
        path_prefix |-> IF SubSeq(prefix, Len(prefix), Len(prefix)) = "/"
                        THEN prefix ELSE prefix \o "/"]

NoBatch == [pc |-> "idle"]

\* this.uploadQueue is a Map: the list of its entries in insertion order;
\* clear() empties the entries (present becomes FALSE) and leaves the list to
\* the iterators that walk it
UIInit ==
    /\ uploadQueue = <<>>
    /\ batch = [b \in BatchSlots |-> NoBatch]
    /\ store = {}
    /\ messages = <<>>
    /\ processed = <<>>
    /\ uploadCalls = <<>>
    /\ nQueued = 0
    /\ nBatches = 0

\* this.uploadQueue.size
QueueSize(queue) == Cardinality({i \in 1..Len(queue) : queue[i].present})

\* the entries a list of results adds to the queue: one for each 'success'
RECURSIVE QueueEntries(_, _)
QueueEntries(results, n) ==
    IF results = <<>> THEN <<>>
    ELSE IF Head(results).status = "success"
    THEN <<[id |-> n + 1, file |-> Head(results).file, status |-> "pending",
            present |-> TRUE]>> \o QueueEntries(Tail(results), n + 1)
    ELSE QueueEntries(Tail(results), n)

\* addFilesToQueue(files), from the return of batchProcess on:
\* this.uploadQueue.set(queueId, ...) for every result that is a 'success'
AddFilesToQueue(files) ==
    /\ Len(processed) < MaxQueued
    /\ nQueued + Len(QueueEntries(BatchProcess(files), 0)) <= MaxQueued
    /\ nQueued' = nQueued + Len(QueueEntries(BatchProcess(files), 0))
    /\ processed' = Append(processed,
           [files |-> files, results |-> BatchProcess(files)])
    /\ uploadQueue' = uploadQueue \o QueueEntries(BatchProcess(files), Len(uploadQueue))
    /\ UNCHANGED <<batch, store, messages, uploadCalls, nBatches>>

\* clearUploadQueue(): this.uploadQueue.clear()
Cleared(queue) == [i \in 1..Len(queue) |-> [queue[i] EXCEPT !.present = FALSE]]

\* the Clear button is clicked (it is enabled while the queue has items)
ClearUploadQueue ==
    /\ QueueSize(uploadQueue) > 0
    /\ uploadQueue' = Cleared(uploadQueue)
    /\ UNCHANGED <<batch, store, messages, processed, uploadCalls, nQueued, nBatches>>

\* the body of the for loop up to its first await, for the entry at index
\* at: the item is marked 'uploading' and encryptFile is called with the
\* File and the configured passphrase
BeginItem(b, queue, at, completed, total) ==
    /\ uploadQueue' = [queue EXCEPT ![at].status = "uploading"]
    /\ EncryptFileStart(b, [isFile |-> TRUE, bytes |-> queue[at].file.bytes],
                        CodeUnits(manager.currentConfig.encryption_key))
    /\ batch' = [batch EXCEPT ![b] =
                    [pc |-> "encryptFile", at |-> at, completed |-> completed,
                     total |-> total, inst |-> nCalls + 1, fullKey |-> "",
                     body |-> <<>>, signInst |-> 0]]
    /\ UNCHANGED messages

\* the loop is over: the summary is shown and the queue is cleared
EndBatch(b, queue, completed, total) ==
    /\ messages' = Append(messages,
           [text |-> "Upload completed: " \o NumberToString(completed) \o "/"
                         \o NumberToString(total) \o " files",
            type |-> "success", completed |-> completed, total |-> total])
    /\ uploadQueue' = Cleared(queue)
    /\ batch' = [batch EXCEPT ![b] = NoBatch]
    /\ UNCHANGED cryptoVars

\* the next turn of the for loop over the Map, or its end: the iterator
\* goes on to the next entry of the list that is not empty, the entries
\* added since the loop began included
NextItem(b, queue, after, completed, total) ==
    LET rest == {i \in (after + 1)..Len(queue) : queue[i].present}
    IN IF rest # {}
       THEN BeginItem(b, queue, CHOOSE i \in rest : \A j \in rest : i <= j,
                      completed, total)
       ELSE EndBatch(b, queue, completed, total)

\* startBatchUpload() up to its first await
StartBatchUpload(b) ==
    /\ batch[b] = NoBatch
    /\ nBatches < MaxBatches
    /\ nBatches' = nBatches + 1
    /\ IF ~manager.isConfigured
       THEN /\ messages' = Append(messages,
                   [text |-> "Please configure S3 settings first", type |-> "error",
                    completed |-> 0, total |-> 0])
            /\ UNCHANGED <<uploadQueue, batch, config>>
            /\ UNCHANGED cryptoVars
       ELSE /\ config' = S3ClientConfig(manager.currentConfig)
            /\ NextItem(b, uploadQueue, 0, 0, QueueSize(uploadQueue))
    /\ UNCHANGED <<store, processed, uploadCalls, nQueued>>
    /\ UNCHANGED <<now, signing, digests, artifacts, nSigned, nTicks>>

\* encryptFile has returned: generateObjectKey, then uploadFile with the
\* encryptedData of the envelope, up to the await in generatePresignedUrl
BatchUploadFile(b, random) ==
    /\ batch[b].pc = "encryptFile"
    /\ \E f \in sealed :
           /\ f.inst = batch[b].inst
           /\ LET objectKey ==
                      GenerateObjectKey(uploadQueue[batch[b].at].file.name, random)
                  fullKey == config.path_prefix \o objectKey
              IN /\ PresignBegin(b, fullKey, "PUT", 3600)
                 /\ batch' = [batch EXCEPT ![b].pc = "presign",
                                           ![b].fullKey = fullKey,
                                           ![b].body = f.env.encryptedData,
                                           ![b].signInst = nSigned + 1]
    /\ uploadCalls' = Append(uploadCalls,
           [batch |-> b, id |-> uploadQueue[batch[b].at].id])
    /\ UNCHANGED <<uploadQueue, store, messages, processed, nQueued, nBatches>>

\* uploadFile once the presigned url is there: new Blob([file]),
\* xhr.open('PUT', presignedUrl), no Content-Type for a buffer, xhr.send(data)
BatchSend(b) ==
    /\ batch[b].pc = "presign"
    /\ \E a \in artifacts :
           /\ a.inst = batch[b].signInst
           /\ requests' = requests \cup
                  {Request("S3Client", "PUT", a.url, NoSSEHeaders, "", batch[b].body)}
    /\ batch' = [batch EXCEPT ![b].pc = "sent"]
    /\ UNCHANGED <<uploadQueue, store, messages, processed, uploadCalls, nQueued,
                   nBatches>>
    /\ UNCHANGED <<sse, sseHeaders, nHeaders, transfers, cleanedUp, given>>

\* the answer to the PUT: with a 2xx status the store holds the body under
\* the key and the item is 'completed', else it is 'error'; the loop goes on
BatchAnswer(b, status) ==
    /\ batch[b].pc = "sent"
    /\ LET ok == status >= 200 /\ status < 300
           queue == [uploadQueue EXCEPT
                        ![batch[b].at].status = IF ok THEN "completed" ELSE "error"]
       IN /\ store' = IF ok
                      THEN store \cup {[key |-> batch[b].fullKey, body |-> batch[b].body]}
                      ELSE store
          /\ NextItem(b, queue, batch[b].at,
                      IF ok THEN batch[b].completed + 1 ELSE batch[b].completed,
                      batch[b].total)
    /\ UNCHANGED <<processed, uploadCalls, nQueued, nBatches>>

\* a configuration is set once, files are queued and uploaded, one
\* startBatchUpload at a time
UploadNext ==
    \/ ~manager.isConfigured /\ SetConfig(CompleteConfig("Xk7!mq9zPw2r"))
           /\ UNCHANGED <<signVars, sseVars, uiVars>>
    \/ SaveConfigStore /\ UNCHANGED <<signVars, sseVars, uiVars>>
    \/ \E files \in FileLists :
           AddFilesToQueue(files) /\ UNCHANGED <<cryptoVars, signVars, sseVars, cfgVars>>
    \/ StartBatchUpload(1) /\ UNCHANGED <<sseVars, cfgVars>>
    \/ EncryptFileRead(1) /\ UNCHANGED <<signVars, sseVars, cfgVars, uiVars>>
    \/ EncryptDeriveKey(1) /\ UNCHANGED <<signVars, sseVars, cfgVars, uiVars>>
    \/ EncryptFinish(1) /\ UNCHANGED <<signVars, sseVars, cfgVars, uiVars>>
    \/ \E random \in RandomSuffixes :
           BatchUploadFile(1, random) /\ UNCHANGED <<cryptoVars, sseVars, cfgVars>>
    \/ SignHash(1) /\ UNCHANGED <<cryptoVars, sseVars, cfgVars, uiVars>>
    \/ PresignFinish(1) /\ UNCHANGED <<cryptoVars, sseVars, cfgVars, uiVars>>
    \/ BatchSend(1) /\ UNCHANGED <<cryptoVars, signVars, cfgVars>>
    \/ \E status \in PutStatuses :
           BatchAnswer(1, status) /\ UNCHANGED <<signVars, sseVars, cfgVars>>

\* the user has set a configuration; then a file is added, Start is clicked
\* while a batch runs or not, Clear is clicked while the queue has items
Configured == manager.isConfigured /\ pending = NoCall

UploadClicksNext ==
    \/ ~manager.isConfigured /\ SetConfig(CompleteConfig("Xk7!mq9zPw2r"))
           /\ UNCHANGED <<signVars, sseVars, uiVars>>
    \/ pending # NoCall /\ EncryptDeriveKey(1)
           /\ UNCHANGED <<signVars, sseVars, cfgVars, uiVars>>
    \/ pending # NoCall /\ EncryptFinish(1)
           /\ UNCHANGED <<signVars, sseVars, cfgVars, uiVars>>
    \/ SaveConfigStore /\ UNCHANGED <<signVars, sseVars, uiVars>>
    \/ Configured /\ AddFilesToQueue(<<CHOOSE f \in Selected : f.image = "ok">>)
           /\ UNCHANGED <<cryptoVars, signVars, sseVars, cfgVars>>
    \/ Configured /\ ClearUploadQueue
           /\ UNCHANGED <<cryptoVars, signVars, sseVars, cfgVars>>
    \/ \E b \in BatchSlots :
           /\ Configured
           /\ \A a \in 1..(b - 1) : batch[a] # NoBatch
           /\ StartBatchUpload(b) /\ UNCHANGED <<sseVars, cfgVars>>
    \/ \E b \in BatchSlots :
           /\ batch[b] # NoBatch
           /\ \/ EncryptFileRead(b) /\ UNCHANGED <<signVars, sseVars, cfgVars, uiVars>>
              \/ EncryptDeriveKey(b) /\ UNCHANGED <<signVars, sseVars, cfgVars, uiVars>>
              \/ EncryptFinish(b) /\ UNCHANGED <<signVars, sseVars, cfgVars, uiVars>>
              \/ BatchUploadFile(b, "k3x9qa") /\ UNCHANGED <<cryptoVars, sseVars, cfgVars>>
              \/ SignHash(b) /\ UNCHANGED <<cryptoVars, sseVars, cfgVars, uiVars>>
              \/ PresignFinish(b) /\ UNCHANGED <<cryptoVars, sseVars, cfgVars, uiVars>>
              \/ BatchSend(b) /\ UNCHANGED <<cryptoVars, signVars, cfgVars>>
              \/ \E status \in {200, 403} :
                     BatchAnswer(b, status) /\ UNCHANGED <<signVars, sseVars, cfgVars>>

-----------------------------------------------------------------------------
(* S3PhotoBackupApp: the application controller *)

\* what checkBrowserCompatibility looks for in the browser
BrowserProperties ==
    {"isSecureContext", "crypto.subtle", "File", "canvas", "localStorage",
     "fetch", "Promise", "URL"}

\* the classes initialize() looks up on window, in the order of its checks
ComponentClasses == <<"ConfigManager", "S3ClientSSE", "FileHandler", "UIManager">>

ComponentNames == {"cryptoManager", "configManager", "fileHandler", "uiManager"}

\* the pages the application may be loaded in: what the browser offers, which
\* of the classes are properties of window, what the crypto self-test answers
Pages ==
    [has : SUBSET BrowserProperties,
     window : SUBSET {ComponentClasses[i] : i \in 1..Len(ComponentClasses)},
     selfTest : BOOLEAN]

\* a page with everything in place
CompletePage ==
    [has |-> BrowserProperties,
     window |-> {ComponentClasses[i] : i \in 1..Len(ComponentClasses)},
     selfTest |-> TRUE]

\* the object 'required' of checkBrowserCompatibility, in the order of its keys
Required(has) ==
    <<[key |-> "webCrypto",
       supported |-> "crypto.subtle" \in has /\ "isSecureContext" \in has],
      [key |-> "fileAPI", supported |-> "File" \in has],
      [key |-> "canvas", supported |-> "canvas" \in has],
      [key |-> "localStorage", supported |-> "localStorage" \in has],
      [key |-> "fetch", supported |-> "fetch" \in has],
      [key |-> "promise", supported |-> "Promise" \in has],
      [key |-> "asyncAwait", supported |-> TRUE],
      [key |-> "modules", supported |-> "URL" \in has]>>

NotSupported(entry) == ~entry.supported

\* nothing was thrown
Passed == [threw |-> FALSE, message |-> <<>>]

\* checkBrowserCompatibility: throws with the missing features named; the
\* message is given by its paragraphs
CheckBrowserCompatibility(has) ==
    LET found == SelectSeq(Required(has), NotSupported)
        missing == [i \in 1..Len(found) |-> found[i].key]
        main == "Browser not supported. Missing features: " \o JoinWith(missing, ", ")
    IN  IF Len(missing) = 0 THEN Passed
        ELSE IF found[1].key # "webCrypto"
        THEN [threw |-> TRUE, message |-> <<main>>]
        ELSE IF "isSecureContext" \notin has
        THEN [threw |-> TRUE,
              message |-> <<main, "Web Crypto API requires HTTPS or localhost. Please serve the application over HTTPS or access it via localhost.">>]
        ELSE [threw |-> TRUE,
              message |-> <<main, "Web Crypto API is not available in this browser. Please use Chrome 60+, Firefox 57+, or Safari 11+.">>]

\* the component checks of initialize(): the first class that is no property
\* of window is reported
LoadComponents(window) ==
    LET absent == {i \in 1..Len(ComponentClasses) : ComponentClasses[i] \notin window}
    IN  IF absent = {} THEN Passed
        ELSE [threw |-> TRUE,
              message |-> <<"Component initialization failed: "
                  \o ComponentClasses[CHOOSE i \in absent : \A j \in absent : i <= j]
                  \o " not loaded">>]

\* runSelfTests to its first await: this.components.cryptoManager.selfTest()
\* is a TypeError when the component is null
CallSelfTest(components) ==
    IF components.cryptoManager = "null"
    THEN [threw |-> TRUE,
          message |-> <<"Self-test failed: Cannot read properties of null (reading 'selfTest')">>]
    ELSE Passed

\* runSelfTests after the crypto self-test has answered
FinishSelfTests(components, cryptoTest) ==
    IF ~cryptoTest
    THEN [threw |-> TRUE, message |-> <<"Self-test failed: Crypto self-test failed">>]
    ELSE IF components.fileHandler = "null"
    THEN [threw |-> TRUE,
          message |-> <<"Self-test failed: Cannot read properties of null (reading 'checkBrowserSupport')">>]
    ELSE Passed

\* this.components.uiManager.initialize(), to the call
CallUIInitialize(components) ==
    IF components.uiManager = "null"
    THEN [threw |-> TRUE,
          message |-> <<"Cannot read properties of null (reading 'initialize')">>]
    ELSE Passed

NoFatal == [shown |-> FALSE, title |-> "", message |-> <<>>]

\* showFatalError('Application failed to initialize', error.message)
ShowFatalError(a, error) ==
    [a EXCEPT !.pc = "done",
              !.fatal = [shown |-> TRUE, title |-> "Application failed to initialize",
                         message |-> error.message]]

\* new S3PhotoBackupApp()
NewApp ==
    [pc |-> "constructed", isInitialized |-> FALSE,
     components |-> [n \in ComponentNames |-> "null"],
     configManager |-> "undefined", fileHandler |-> "undefined",
     uiManager |-> "undefined", handlers |-> FALSE, selfTests |-> "none",
     uiInitialized |-> FALSE, fatal |-> NoFatal, dispatched |-> <<>>]

AppInit == page \in Pages /\ app = NewApp

AppAtRest == page = CompletePage /\ app = NewApp

\* S3PhotoBackupApp.start(): initialize() to its first await, or to the fatal
\* error screen
AppInitialize ==
    /\ app.pc = "constructed"
    /\ LET compatibility == CheckBrowserCompatibility(page.has)
           loaded == LoadComponents(page.window)
           built == [app EXCEPT !.configManager = "instance",
                                !.fileHandler = "instance",
                                !.uiManager = "instance",
                                !.handlers = TRUE]
           called == CallSelfTest(built.components)
       IN  app' = IF compatibility.threw THEN ShowFatalError(app, compatibility)
                  ELSE IF loaded.threw THEN ShowFatalError(app, loaded)
                  ELSE IF called.threw
                  THEN [built EXCEPT !.pc = "awaitSelfTests", !.selfTests = "rejected"]
                  ELSE [built EXCEPT !.pc = "awaitSelfTests", !.selfTests = "pending"]
    /\ UNCHANGED page

\* initialize() goes on after an await: the self-tests have ended, or the
\* UIManager's initialize() has
AppResume ==
    /\ app.pc \in {"awaitSelfTests", "awaitUI"}
    /\ LET tests == IF app.selfTests = "rejected" THEN CallSelfTest(app.components)
                    ELSE FinishSelfTests(app.components, page.selfTest)
           ui == CallUIInitialize(app.components)
       IN  app' = IF app.pc = "awaitUI"
                  THEN [app EXCEPT !.pc = "done", !.uiInitialized = TRUE,
                                   !.isInitialized = TRUE,
                                   !.dispatched = Append(@, "appReady")]
                  ELSE IF tests.threw THEN ShowFatalError(app, tests)
                  ELSE IF ui.threw
                  THEN ShowFatalError([app EXCEPT !.selfTests = "passed"], ui)
                  ELSE [app EXCEPT !.pc = "awaitUI", !.selfTests = "passed"]
    /\ UNCHANGED page

AppNext == AppInitialize \/ AppResume

-----------------------------------------------------------------------------
(* UIManager: the photo gallery and the photo viewer *)

\* the objects the store may list
PhotoA == [key |-> "photos/a.jpg", lastModified |-> 1]
PhotoB == [key |-> "photos/B.png", lastModified |-> 2]
PhotoC == [key |-> "photos/ab.jpg", lastModified |-> 3]

\* what S3Client.listObjects() may return to loadGallery
Listings == {<<>>, <<PhotoA>>, <<PhotoA, PhotoB, PhotoC>>}

\* the values of the search input
Queries == {"", " ", "b", "A.JPG", "zz"}

\* nothing shown yet in the viewer's title and date
NoPhoto == [key |-> "", lastModified |-> 0]

\* this.currentPhoto: null, or a number
NullPhoto == [isNull |-> TRUE, number |-> 0]

NumberPhoto(n) == [isNull |-> FALSE, number |-> n]

\* null taken as a number by >, <, ++ and --
ToNumber(current) == IF current.isNull THEN 0 ELSE current.number

\* String.prototype.trim over the blanks of the queries
RECURSIVE Trim(_)
Trim(s) ==
    IF s = "" THEN s
    ELSE IF SubSeq(s, 1, 1) = " " THEN Trim(SubSeq(s, 2, Len(s)))
    ELSE IF SubSeq(s, Len(s), Len(s)) = " " THEN Trim(SubSeq(s, 1, Len(s) - 1))
    ELSE s

\* photo.key.toLowerCase().includes(query.toLowerCase())
Matches(photo, query) ==
    ContainsBytes(CodeUnits(LowerCase(photo.key)), CodeUnits(LowerCase(query)))

\* the tiles of the photo grid made by forEach((photo, index) =>
\* createPhotoGridItem(photo, index)): each keeps the index given to it for
\* its click handler; indices count from 0
GridItems(photos) ==
    [i \in 1..Len(photos) |-> [photo |-> photos[i], index |-> i - 1]]

\* new UIManager(): the gallery part of the constructor
GalleryInit ==
    /\ gallery = [photoGallery |-> <<>>, currentPhoto |-> NullPhoto,
                  hidden |-> TRUE, shown |-> NoPhoto, tiles |-> <<>>,
                  loading |-> FALSE, loads |-> 0]
    /\ nLoads = 0

\* loadPhotoInViewer(index): the title and date of photoGallery[index], when
\* there is one
LoadPhotoInViewer(g, index) ==
    IF index \in 0..(Len(g.photoGallery) - 1)
    THEN [g EXCEPT !.shown = g.photoGallery[index + 1]]
    ELSE g

\* loadGallery(), to the await of listObjects(); without a configuration a
\* warning is shown
LoadGallery ==
    /\ nLoads < MaxLoads
    /\ nLoads' = nLoads + 1
    /\ IF ~manager.isConfigured
       THEN /\ messages' = Append(messages,
                   [text |-> "Please configure S3 settings first",
                    type |-> "warning"])
            /\ UNCHANGED gallery
       ELSE /\ gallery' = [gallery EXCEPT !.loading = TRUE, !.loads = @ + 1]
            /\ UNCHANGED messages

\* listObjects() has answered one of the loadGallery calls
LoadGalleryFinish(objects) ==
    /\ gallery.loads > 0
    /\ gallery' = [gallery EXCEPT !.photoGallery = objects,
                                  !.tiles = GridItems(objects),
                                  !.loading = FALSE, !.loads = @ - 1]
    /\ UNCHANGED <<messages, nLoads>>

\* listObjects() has thrown
LoadGalleryFail ==
    /\ gallery.loads > 0
    /\ messages' = Append(messages,
           [text |-> "Failed to load gallery: List objects failed: List objects failed with status 403: Forbidden",
            type |-> "error"])
    /\ gallery' = [gallery EXCEPT !.loading = FALSE, !.loads = @ - 1]
    /\ UNCHANGED nLoads

\* searchPhotos(query)
SearchPhotos(query) ==
    /\ gallery' = [gallery EXCEPT !.tiles =
           IF Trim(query) = "" THEN GridItems(gallery.photoGallery)
           ELSE LET Hit(photo) == Matches(photo, query)
                IN  GridItems(SelectSeq(gallery.photoGallery, Hit))]
    /\ UNCHANGED <<messages, nLoads>>

\* openPhotoViewer(index)
OpenPhotoViewer(index) ==
    /\ gallery' = LoadPhotoInViewer(
           [gallery EXCEPT !.currentPhoto = NumberPhoto(index), !.hidden = FALSE],
           index)
    /\ UNCHANGED <<messages, nLoads>>

\* a click on the tile at place t of the photo grid
ClickTile(t) ==
    /\ t \in 1..Len(gallery.tiles)
    /\ OpenPhotoViewer(gallery.tiles[t].index)

\* closePhotoViewer()
ClosePhotoViewer ==
    /\ gallery' = [gallery EXCEPT !.hidden = TRUE, !.currentPhoto = NullPhoto]
    /\ UNCHANGED <<messages, nLoads>>

\* showPreviousPhoto()
ShowPreviousPhoto ==
    /\ gallery' =
           IF ToNumber(gallery.currentPhoto) > 0
           THEN [LoadPhotoInViewer(gallery, ToNumber(gallery.currentPhoto) - 1)
                    EXCEPT !.currentPhoto = NumberPhoto(ToNumber(gallery.currentPhoto) - 1)]
           ELSE gallery
    /\ UNCHANGED <<messages, nLoads>>

\* showNextPhoto()
ShowNextPhoto ==
    /\ gallery' =
           IF ToNumber(gallery.currentPhoto) < Len(gallery.photoGallery) - 1
           THEN [LoadPhotoInViewer(gallery, ToNumber(gallery.currentPhoto) + 1)
                    EXCEPT !.currentPhoto = NumberPhoto(ToNumber(gallery.currentPhoto) + 1)]
           ELSE gallery
    /\ UNCHANGED <<messages, nLoads>>

\* the user sets a configuration, shows the gallery screen, searches, clicks
\* tiles and the buttons of the viewer while listings arrive
GalleryNext ==
    \/ ~manager.isConfigured /\ SetConfig(CompleteConfig("Xk7!mq9zPw2r"))
           /\ UNCHANGED <<signVars, sseVars, uiVars, appVars, galleryVars>>
    \/ pending # NoCall /\ EncryptDeriveKey(1)
           /\ UNCHANGED <<signVars, sseVars, cfgVars, uiVars, appVars, galleryVars>>
    \/ pending # NoCall /\ EncryptFinish(1)
           /\ UNCHANGED <<signVars, sseVars, cfgVars, uiVars, appVars, galleryVars>>
    \/ SaveConfigStore /\ UNCHANGED <<signVars, sseVars, uiVars, appVars, galleryVars>>
    \/ /\ pending = NoCall
       /\ UNCHANGED <<cryptoVars, signVars, sseVars, cfgVars, appVars,
                      uploadQueue, batch, store, processed, uploadCalls,
                      nQueued, nBatches>>
       /\ \/ LoadGallery
          \/ \E objects \in Listings : LoadGalleryFinish(objects)
          \/ LoadGalleryFail
          \/ \E query \in Queries : SearchPhotos(query)
          \/ \E t \in 1..Len(gallery.tiles) : ClickTile(t)
          \/ ClosePhotoViewer
          \/ ShowPreviousPhoto
          \/ ShowNextPhoto

-----------------------------------------------------------------------------
(* Specifications *)

\* what the calls of one component leave alone
besidesCrypto ==
    <<signVars, md5Vars, sseVars, cfgVars, uiVars, appVars, galleryVars>>
besidesSigner ==
    <<cryptoVars, md5Vars, sseVars, cfgVars, uiVars, appVars, galleryVars>>
besidesMD5 ==
    <<cryptoVars, signVars, sseVars, cfgVars, uiVars, appVars, galleryVars>>
besidesSSE ==
    <<cryptoVars, md5Vars, cfgVars, uiVars, appVars, galleryVars>>
besidesUpload == <<md5Vars, appVars, galleryVars>>
besidesApp ==
    <<cryptoVars, signVars, md5Vars, sseVars, cfgVars, uiVars, galleryVars>>
besidesConfig ==
    <<signVars, md5Vars, sseVars, uiVars, appVars, galleryVars>>

Init ==
    /\ CryptoInit /\ SignInit /\ MD5Init /\ SSEInit /\ ConfigInit /\ UIInit
    /\ AppInit /\ GalleryInit

\* every operation, in any number of concurrent calls
Next ==
    \/ \E c \in Slots, text \in Texts, k \in Passphrases :
           EncryptStringBegin(c, text, k) /\ UNCHANGED besidesCrypto
    \/ \E c \in Slots, file \in Files, k \in Passphrases :
           EncryptFileBegin(c, file, k) /\ UNCHANGED besidesCrypto
    \/ \E c \in Slots : EncryptFileRead(c) /\ UNCHANGED besidesCrypto
    \/ \E c \in Slots : EncryptDeriveKey(c) /\ UNCHANGED besidesCrypto
    \/ \E c \in Slots : EncryptFinish(c) /\ UNCHANGED besidesCrypto
    \/ \E c \in Slots, e \in sealed, how \in StringCorruptions, k \in Passphrases :
           DecryptStringBegin(c, e, how, k) /\ UNCHANGED besidesCrypto
    \/ \E c \in Slots, e \in sealed, how \in FileCorruptions, k \in Passphrases :
           DecryptFileBegin(c, e, how, k) /\ UNCHANGED besidesCrypto
    \/ \E c \in Slots : DecryptDeriveKey(c) /\ UNCHANGED besidesCrypto
    \/ \E c \in Slots : DecryptFinish(c) /\ UNCHANGED besidesCrypto
    \/ \E c \in SignSlots, key \in ObjectKeys, method \in Methods,
          expiresIn \in Expiries :
           PresignBegin(c, key, method, expiresIn) /\ UNCHANGED besidesSigner
    \/ \E c \in SignSlots, prefix \in Prefixes :
           ListObjects(c, prefix, 1000) /\ UNCHANGED besidesSigner
    \/ \E c \in SignSlots : TestConnection(c) /\ UNCHANGED besidesSigner
    \/ \E c \in SignSlots : SignHash(c) /\ UNCHANGED besidesSigner
    \/ \E c \in SignSlots : PresignFinish(c) /\ UNCHANGED besidesSigner
    \/ \E c \in SignSlots : AuthHeadersFinish(c) /\ UNCHANGED besidesSigner
    \/ \E d \in TickSteps : Tick(d) /\ UNCHANGED besidesSigner
    \/ MD5Next /\ UNCHANGED besidesMD5
    \/ SSENext /\ UNCHANGED besidesSSE
    \/ ConfigNext /\ UNCHANGED besidesConfig
    \/ UploadNext /\ UNCHANGED besidesUpload
    \/ UploadClicksNext /\ UNCHANGED besidesUpload
    \/ AppNext /\ UNCHANGED besidesApp
    \/ GalleryNext /\ UNCHANGED md5Vars

Spec == Init /\ [][Next]_vars

\* the signer at rest with one fixed configuration
SignerAtRest == SignInit /\ config.s3_endpoint = "https://s3.example.com"

\* no MD5 call to make
MD5AtRest ==
    md5 = [input |-> [call |-> "none", n |-> 0, data |-> <<>>],
           done |-> FALSE, chunks |-> <<>>, digest |-> <<>>]

\* the signer's customer key under one fixed passphrase
SSEAtRest == SSEInit /\ sse.encryption_key = "Xk7!mq9zPw2r"

InitAtRest ==
    CryptoInit /\ SignerAtRest /\ MD5AtRest /\ SSEAtRest /\ ConfigInit /\ UIInit
    /\ AppAtRest /\ GalleryInit

\* CryptoManager calls one at a time
SpecCrypto ==
    InitAtRest /\ [][CryptoNext /\ UNCHANGED besidesCrypto]_vars

\* concurrent encryption calls
SpecEncrypt ==
    InitAtRest /\ [][EncryptNext /\ UNCHANGED besidesCrypto]_vars

InitSign ==
    CryptoInit /\ SignInit /\ MD5AtRest /\ SSEAtRest /\ ConfigInit /\ UIInit
    /\ AppAtRest /\ GalleryInit

\* signing calls one at a time
SpecSign == InitSign /\ [][SignNext /\ UNCHANGED besidesSigner]_vars

\* signing calls one at a time, under the fixed configuration
SpecSignAtRest == InitAtRest /\ [][SignNext /\ UNCHANGED besidesSigner]_vars

\* concurrent signing calls
SpecSignConc ==
    InitAtRest /\ [][SignConcNext /\ UNCHANGED besidesSigner]_vars

InitMD5 ==
    CryptoInit /\ SignerAtRest /\ MD5Init /\ SSEAtRest /\ ConfigInit /\ UIInit
    /\ AppAtRest /\ GalleryInit

\* one MD5 call over each of the inputs
SpecMD5 == InitMD5 /\ [][MD5Next /\ UNCHANGED besidesMD5]_vars

InitSSE ==
    CryptoInit /\ SignerAtRest /\ MD5AtRest /\ SSEInit /\ ConfigInit /\ UIInit
    /\ AppAtRest /\ GalleryInit

\* the calls of one S3ClientSSE built from a complete configuration
SpecSSE == InitSSE /\ [][SSENext /\ UNCHANGED besidesSSE]_vars

InitGiven ==
    CryptoInit /\ SignerFresh /\ MD5AtRest /\ SSEInitGiven /\ ConfigInit /\ UIInit
    /\ AppAtRest /\ GalleryInit

\* the ConfigManager calls, one at a time
SpecConfig == InitAtRest /\ [][ConfigNext /\ UNCHANGED besidesConfig]_vars

\* a configuration is set, files are queued and uploaded in one batch
SpecUpload == InitAtRest /\ [][UploadNext /\ UNCHANGED besidesUpload]_vars

\* the same with the Start and Clear buttons clicked at any time
SpecUploadClicks == InitAtRest /\ [][UploadClicksNext /\ UNCHANGED besidesUpload]_vars

InitApp ==
    /\ CryptoInit /\ SignerAtRest /\ MD5AtRest /\ SSEAtRest /\ ConfigInit /\ UIInit
    /\ AppInit /\ GalleryInit

\* the application starts in any page; a call that awaits goes on when what it
\* awaits has settled
SpecApp ==
    InitApp /\ [][AppNext /\ UNCHANGED besidesApp]_vars
        /\ WF_vars(AppNext /\ UNCHANGED besidesApp)

\* the gallery screen of a configured application
SpecGallery == InitAtRest /\ [][GalleryNext /\ UNCHANGED md5Vars]_vars

\* the uploads of one S3ClientSSE built from any config object
SpecSSEGiven == InitGiven /\ [][SSEUploadNext /\ UNCHANGED besidesSSE]_vars

-----
(* Reading a signed artifact, as the receiving store does *)

\* what follows the authority of a url
UrlAfterHost(url) ==
    LET rest == SubSeq(url, IndexOf(url, "://") + 3, Len(url))
    IN SubSeq(rest, FirstOf(rest, {"/", "?", "#"}), Len(rest))

UrlPath(url) ==
    LET r == UrlAfterHost(url) IN SubSeq(r, 1, FirstOf(r, {"?", "#"}) - 1)

UrlQuery(url) ==
    LET r == UrlAfterHost(url)
        q == IndexOf(r, "?")
    IN IF q = 0 THEN "" ELSE SubSeq(r, q + 1, FirstOf(r, {"#"}) - 1)

HexValue(c) == (CHOOSE i \in 1..16 : SubSeq(HexDigits, i, i) = c) - 1

\* percent-decoding of a query component (+ is a space)
RECURSIVE FormDecode(_)
FormDecode(s) ==
    IF s = "" THEN ""
    ELSE IF SubSeq(s, 1, 1) = "%" /\ Len(s) >= 3
    THEN Chr((HexValue(SubSeq(s, 2, 2)) * 16) + HexValue(SubSeq(s, 3, 3)))
             \o FormDecode(SubSeq(s, 4, Len(s)))
    ELSE (IF SubSeq(s, 1, 1) = "+" THEN " " ELSE SubSeq(s, 1, 1))
             \o FormDecode(SubSeq(s, 2, Len(s)))

\* the name=value pairs of a query string, as written
QueryPairs(qs) ==
    IF qs = "" THEN <<>>
    ELSE LET parts == Split(qs, "&")
         IN [i \in 1..Len(parts) |->
                LET e == IndexOf(parts[i], "=")
                IN <<SubSeq(parts[i], 1, e - 1),
                     SubSeq(parts[i], e + 1, Len(parts[i]))>>]

QueryNames(qs) == [i \in 1..Len(QueryPairs(qs)) |-> QueryPairs(qs)[i][1]]

\* the decoded value of a query parameter of a url
QueryValue(url, name) ==
    LET q == "&" \o UrlQuery(url)
        at == IndexOf(q, "&" \o name \o "=")
        tail == SubSeq(q, at + Len(name) + 2, Len(q))
    IN FormDecode(SubSeq(tail, 1, FirstOf(tail, {"&"}) - 1))

\* byte order on ASCII strings
RECURSIVE BytesLeq(_, _)
BytesLeq(a, b) ==
    IF a = "" THEN TRUE
    ELSE IF b = "" THEN FALSE
    ELSE IF SubSeq(a, 1, 1) = SubSeq(b, 1, 1)
    THEN BytesLeq(SubSeq(a, 2, Len(a)), SubSeq(b, 2, Len(b)))
    ELSE Ord(SubSeq(a, 1, 1)) < Ord(SubSeq(b, 1, 1))

\* the X-Amz-Date, the Credential and the signature an artifact carries
XAmzDateOf(a) ==
    IF a.kind = "presign" THEN QueryValue(a.url, "X-Amz-Date")
    ELSE a.headers.XAmzDate

CredentialOf(a) ==
    IF a.kind = "presign" THEN QueryValue(a.url, "X-Amz-Credential")
    ELSE LET auth == a.headers.Authorization
             from == IndexOf(auth, "Credential=") + Len("Credential=")
             tail == SubSeq(auth, from, Len(auth))
         IN SubSeq(tail, 1, FirstOf(tail, {","}) - 1)

SignatureOf(a) ==
    IF a.kind = "presign" THEN QueryValue(a.url, "X-Amz-Signature")
    ELSE LET auth == a.headers.Authorization
         IN SubSeq(auth, IndexOf(auth, "Signature=") + Len("Signature="), Len(auth))

\* the SigV4 timestamp YYYYMMDD'T'HHMMSS'Z' of the instant t
SigV4Timestamp(t) ==
    LET date == CivilFromDays(t.s \div 86400)
        secs == t.s % 86400
    IN Digits(date.year, 4) \o Digits(date.month, 2) \o Digits(date.day, 2)
           \o "T" \o Digits(secs \div 3600, 2) \o Digits((secs \div 60) % 60, 2)
           \o Digits(secs % 60, 2) \o "Z"

IsUnreserved(c) == IsAlnum(c) \/ c \in {"-", ".", "_", "~"}

\* RFC 3986 percent-encoding of an object key, / kept
UriEncodePath(key) ==
    Concat([i \in 1..Len(key) |->
        LET c == SubSeq(key, i, i) IN
        IF IsUnreserved(c) \/ c = "/" THEN c ELSE PercentEscape(c)])

Presigned == {a \in artifacts : a.kind = "presign"}

-----------------------------------------------------------------------------
(* Properties of the signer *)

\* C5 as claimed: no two signing calls sign with the same timestamp: the
\* X-Amz-Date values of two different signed artifacts differ
C5_NoTwoSameTimestamps ==
    \A a, b \in artifacts : a.inst # b.inst => XAmzDateOf(a) # XAmzDateOf(b)

\* C5 as amended: every signed artifact carries the clock reading its own
\* call made, in whole seconds, so two artifacts whose calls read the clock in
\* different seconds carry different X-Amz-Date values
C5_OwnClockReading ==
    /\ \A a \in artifacts : XAmzDateOf(a) = SigV4Timestamp(a.readAt)
    /\ \A a, b \in artifacts :
           a.readAt.s # b.readAt.s => XAmzDateOf(a) # XAmzDateOf(b)

\* two artifacts were signed by calls that read the clock in different seconds
C5_Witness ==
    \E a, b \in artifacts : a.inst # b.inst /\ a.readAt.s # b.readAt.s

\* C6: the canonical query string of every signed request lists its
\* parameters sorted by name in byte order
C6_QuerySortedByKey ==
    \A a \in artifacts :
        LET names == QueryNames(a.canonicalQueryString)
        IN \A i, j \in 1..Len(names) : i < j => BytesLeq(names[i], names[j])

\* C7: the canonical URI of a presigned URL is /bucket/ followed by the key
\* with every character but the RFC 3986 unreserved ones and / percent
\* encoded; so it holds only /, unreserved characters and escapes
C7_CanonicalUriEncoded ==
    \A a \in Presigned :
        /\ a.canonicalUri = "/" \o config.s3_bucket \o "/" \o UriEncodePath(a.key)
        /\ \A i \in 1..Len(a.canonicalUri) :
               LET c == SubSeq(a.canonicalUri, i, i)
               IN IsUnreserved(c) \/ c \in {"/", "%"}

\* C8: in every signed artifact the credential scope is
\* dateStamp/region/s3/aws4_request, dateStamp being the first 8 characters
\* of the timestamp in the string to sign, and that scope is the one in the
\* Credential field, in the string to sign and in the signing key derivation
C8_OneCredentialScope ==
    \A a \in artifacts :
        LET timestamp == XAmzDateOf(a)
            dateStamp == Slice(timestamp, 0, 8)
            scope == dateStamp \o "/" \o config.s3_region \o "/s3/aws4_request"
            signed == "AWS4-HMAC-SHA256\n" \o timestamp \o "\n" \o scope \o "\n"
        IN /\ SubSeq(a.stringToSign, 1, Len(signed)) = signed
           /\ CredentialOf(a) = config.s3_access_key \o "/" \o scope
           /\ a.keyInputs = <<"AWS4" \o config.s3_secret_key, dateStamp,
                              config.s3_region, "s3", "aws4_request">>

\* a presigned URL and a set of auth headers have been signed, one of them
\* by a call during which the date changed
C8_Witness ==
    /\ \E a \in artifacts : a.kind = "presign"
    /\ \E a \in artifacts : a.kind = "authHeaders"
    /\ \E a \in artifacts : a.dateStamp # Slice(SigV4Timestamp(now), 0, 8)

\* C9: the query string of a presigned URL is the signed canonical query
\* string (the five X-Amz parameters) followed by &X-Amz-Signature=<signature>,
\* its path is the signed canonical URI, and the signature is not signed
C9_UrlIsWhatWasSigned ==
    \A a \in Presigned :
        /\ UrlQuery(a.url) =
               a.canonicalQueryString \o "&X-Amz-Signature=" \o a.signature
        /\ QueryNames(a.canonicalQueryString) =
               <<"X-Amz-Algorithm", "X-Amz-Credential", "X-Amz-Date",
                 "X-Amz-Expires", "X-Amz-SignedHeaders">>
        /\ UrlPath(a.url) = a.canonicalUri
        /\ IndexOf(a.canonicalRequest, "X-Amz-Signature") = 0

\* C10: two presigned URLs for the same key, timestamp, expiry and
\* configuration that differ in the method were made from different
\* canonical requests and carry different signatures
C10_MethodBound ==
    \A a, b \in Presigned :
        (/\ a.key = b.key
         /\ a.canonicalQueryString = b.canonicalQueryString
         /\ a.method # b.method)
            => (/\ a.canonicalRequest # b.canonicalRequest
                /\ SignatureOf(a) # SignatureOf(b))

\* a GET and a PUT url have been presigned for one key at one timestamp
C10_Witness ==
    \E a, b \in Presigned :
        /\ a.key = b.key
        /\ XAmzDateOf(a) = XAmzDateOf(b)
        /\ a.method = "GET"
        /\ b.method = "PUT"

-----------------------------------------------------------------------------
(* Properties of MD5 *)

\* the RFC 1321 digests of Message(0), Message(1), ... (reference values)
RFC1321OfMessage ==
    <<
      "d41d8cd98f00b204e9800998ecf8427e", "9e688c58a5487b8eaf69c9e1005ad0bf",
      "c58cea7ef6e89ca39f9401edb12d241d", "b4a3ba90641372b4e4eaa841a5a400ec",
      "dece8077759a2b36b96fbd1203a832ab", "0110fe6f174900eeba48212ea85f5f08",
      "efa68638f151c53af8251d6017f4836c", "e7d342fe79fccdcf95c07b37df7ad813",
      "558be182b7fdde0565597ce7b343c895", "5810088dd0f704b3de39ee0265b0359d",
      "299ef1da44eb2537ddfa00e159c66b79", "aa54617ba107bc7efe2c875ca9029a53",
      "225cabc85894352493a111016e61410d", "b8e1723f64e228f2f6a3176d43d76a05",
      "f0b3b4f7e20e4d4adbda5a6c1d3558d5", "21004d0a76dd8dc712a26c6f34d97710",
      "20f4f8ba3a4671d2f1df67db36acb830", "359ab8966ed132f265988be41afc7234",
      "74adb5aa536c972d0db7e1a8236aff05", "74fd34bd616852a607e0407f860b7e36",
      "7534042da5f335a37ffcb849f520071d", "c215697250339cdf2ed1bb1477ee988c",
      "cbb59113e96435fe6de4a3488a90dc7f", "b410bdccfd8251bfff64c412ea40efd5",
      "ea3ee5e882f2c09431ba1c0a59dced64", "b3dd0b4e416141f54b4213cb3bc3413c",
      "887a646734ed4812dbdf1fc18622df2e", "7e8b87ffbb1e2e17cc746c6c97bc6c03",
      "67f7897e0f514b399ea7babf958224bb", "b26628006f5089965ec1831d85ef9022",
      "f584c1b836b6e53895a0875086b2361f", "fa302402c5738311cfc7ceed404bf8e4",
      "bfff875d0a618c88fdcafe7f762fd3e1", "cc2bdbc9f910528f77046f1bcc622716",
      "821688f52911073b61b2ca7605314af8", "6736714ea53dd42c6e1cc307eb2ab796",
      "5a28f16d2eb3d128eb6af801278f07b7", "ec90805ac4e0800e1c6a2393c3f094e6",
      "f65b7ec5db308db14bb9b263293f4e49", "f3ec43a19a1cc81da5092db067a42a28",
      "598892854cd973842dc1cf42a92562fb", "9d3d8e4d8fad12576074a5663371cfb4",
      "7952aa2efb749bfd2d7ae72d2f2f74b6", "36f0c2aa0e0d91a591cf6e033de885f7",
      "df8d049de6360a01414508f782b8b7fd", "39ca76bd538f5017afec2b78767962e2",
      "846db81437b15a95f325058dc9d2f732", "138f48baaa414b5b5dceff2c5b6eacd2",
      "005a228784c9b00bb4d131b5a59e7cda", "fb62a08de74a0a053ab6ee4fcd42b099",
      "bd41f9fb9de78dab081ec6dfcb490203", "7135dad17f8b69fa89fb2f386864858a",
      "0e0244d00780d03e2130b81841937a17", "6e371d5e61148f84efe60d0268039672",
      "3ad59c80c77d45eac6adbcd326b221ca", "b2e68e5e90afe78dd67a350dfae40339",
      "e049ede3d0a51e036d53b87c1dec1ad4", "7ac76723e2763e6959d0fe891bb2e1bd",
      "89d1eb816da36a18861a80f5bbd317b9", "ce466d61b3e879d572d6626158143603",
      "bd1e4f0899bc899b5a16c9c1a42fa23e", "91c0a0d655e4c45ad7ac369262f314a8",
      "5ff3a834c539fa08dfeb2db2660a1cd8", "696698500c5b87ff186fa6a0bf729d7b",
      "1c89ef61425edd118f669b6e16176d20", "4bbe026273f04851a60be2c723e03c92",
      "558c9104e5850085099eede1f70755cb", "0fe5db2b47364824d63e6637d2a3a3ae",
      "22dc3a614782020c67966b78c8458806", "301c0ef866eef16c89cc5d1b483bdcc0",
      "058f5c37bc048c2e17fc771efd4f2507", "3876ed13520d53c1e4ae31319217a8a4",
      "5ea7dd316a2f14f175f5043cbceafc7d", "40ec10082a20e001264b1934ed6ef25c",
      "e21e8519f2dfca742e3dc5e99dd66d76", "0b62dd622618e6c2653d95358bf80094",
      "5ad6eca0fd7513720957410c21e6eb33", "2d9c91d489fd29cad8ab522e3c170498",
      "6d6e32fcbf191f459c0f05d397abb031", "77e72c25e140cff05ac4800b5cf8fe2a",
      "3e67ea596da4a910b871e28de2dc2fe7", "5a1087c0a538d43488686d5fc0afdae7",
      "a597152b54f8eac5e4544cf70189420c", "c7c61225eb80d74f6250c7abdc982090",
      "1a97bc3b45d7be8edd2d80fd83d9df83", "f39e1ad67e485f8c657b4a424f4ec69a",
      "ab434f45c2ed2c42800ded193d43b3c1", "7fdcf06fc3bfb32b159784b444a9d3a2",
      "7f99d504e5e8f86d86556b0132a0efb6", "ec7f90c58708308d14225418a765bf69",
      "901d771f2244a9ba8cc383d72dc44897", "0d8acd1da2f555f44c0937caa2b64ff4",
      "8aef039150b5d3d06caca6e4e929af4b", "7de335a7b05b08f2f2646022545f45d5",
      "56b663862c2c5bc8124388cdedb02a8e", "6cdc8e44701efc8b2e425188796d2298",
      "10f1dab417867d7bd4fd03aac3ec3a93", "4a29885d2573e692896e4247289e4a82",
      "ae4ad97fef52f4a3ac3a721a7ef911e7", "3d805a89818db9334dc033f296882cd3",
      "edc599a0f61bf8b83125ca6e0abd4b11", "8949710616c11fe73433d6c4ef20a9ba",
      "94f5898f23c21bb093d0b7c350e66df6", "ea609a441a266cf6ed210ea9cbe32888",
      "26c4b3c4880e80377ef7aec267d22d01", "fc3c8e046034dcadc84cae24729a1cf1",
      "67f5b4e0ea84716f3abd630651411159", "a9687206d6f497c4f594e5e84435d23f",
      "0383c4f003c343e15926ba2fb9e208a1", "a930b898bbfa60ab0d48d29b2d898e60",
      "5f67b19291f6763ebc70401c3c446d3b", "5a125a303a3721c8860983095ac219c5",
      "9ce302ac31c9731cc4afe3ecaa16dba4", "020b87268345c868c5680f3f78bc0c8b",
      "9289ce497c9183beac770b4a6d362d03", "ac5bcc760986e6486cb23f2df385ebb5",
      "740fbe5396d0e3bfe53e9cd3bf855bd6", "011d35726bfd2cb3129b269f2c8e8eaa",
      "4be83ed841f8e6fd42c11ae8266ea743", "f526c06785561a4fb96378a9d2f35114",
      "abbd215bd44b0158cce375f626bf5b5b", "5e4be8937372ddf08ea3cfc3dffbf39b",
      "ef29f6d3dc9f1d24760461a39a52c175" >>

\* the RFC 1321 digests of the test suite of RFC 1321, A.5
RFC1321OfText ==
    <<
      "d41d8cd98f00b204e9800998ecf8427e", "0cc175b9c0f1b6a831c399e269772661",
      "900150983cd24fb0d6963f7d28e17f72", "f96b697d7cb7938d525a2f31aaf161d0",
      "c3fcd3d76192e4007dfb496cca67e13b", "d174ab98d277d9f5a5611c2c9f419d9f",
      "57edf4a22be3c955ac49da2e2107b67a" >>

\* the padded message of RFC 1321, 3.1 and 3.2: the message, one byte 0x80,
\* the fewest zero bytes that bring the length to 56 mod 64, and the bit
\* length as a 64-bit little-endian integer
RFC1321Padded(message) ==
    LET n == Len(message)
        zeros == CHOOSE z \in 0..63 : (n + 1 + z) % 64 = 56
        bits == 8 * n
    IN message \o <<128>> \o [i \in 1..zeros |-> 0]
           \o <<bits % 256, (bits \div 256) % 256, (bits \div 65536) % 256,
                (bits \div 65536) \div 256, 0, 0, 0, 0>>

\* the bytes an MD5 call was given
MD5Message == IF md5.input.call = "hash" THEN TextEncode(md5.input.data)
              ELSE md5.input.data

\* the chunks processed, one after the other
RECURSIVE Flatten(_)
Flatten(seqs) == IF seqs = <<>> THEN <<>> ELSE Head(seqs) \o Flatten(Tail(seqs))

\* C13: MD5.hashBytes(b) and MD5.hash(s) return the 16-byte RFC 1321 digest
\* of their input: of the byte messages of every length up to the bound and
\* of the strings of the RFC's test suite ("" and "abc" among them)
C13_DigestIsRFC1321 ==
    md5.done =>
        /\ Len(md5.digest) = 16
        /\ HexOfBytes(md5.digest) =
               IF md5.input.call = "hash" THEN RFC1321OfText[md5.input.n]
               ELSE RFC1321OfMessage[md5.input.n + 1]

\* a digest has been made of a message of more than one block, and one of "abc"
C13_Witness ==
    /\ md5.done
    /\ \/ md5.input.call = "hash" /\ md5.input.n = 3
       \/ md5.input.call = "hashBytes" /\ md5.input.n = 64

\* C14: the chunks updateBytes processes are, in order and each once, the
\* 64-byte blocks of the message padded as RFC 1321 says
C14_PaddedBlocksInOrder ==
    md5.done =>
        LET padded == RFC1321Padded(MD5Message)
        IN /\ Len(padded) % 64 = 0
           /\ Len(md5.chunks) = Len(padded) \div 64
           /\ \A k \in 1..Len(md5.chunks) :
                  md5.chunks[k] = SubSeq(padded, (64 * (k - 1)) + 1, 64 * k)
           /\ Flatten(md5.chunks) = padded

\* a message whose length is 56 mod 64 has been hashed: the padding fills a
\* whole further block
C14_Witness ==
    md5.done /\ Len(MD5Message) % 64 = 56 /\ Len(md5.chunks) = 2

-----------------------------------------------------------------------------
(* Properties of S3ClientSSE *)

\* the RFC 1321 digests of the 32-byte keys 00 .. 00 n, n from 1
RFC1321OfKey ==
    <<
      "a095f1f18a932ea0638781df0111391f", "556e94adb97a294682c4046b91b19963",
      "541a1cf2d00d6ef85ab73d27eda92aa8", "97676a24a55cd496124dcc2bcfff36e6",
      "fc1f2b578884725f1a409fae07a2ad1e", "89d19d71e9d1b28a2b701d7cdb2514bb",
      "adb78201c6113a5e715c71a0f4e94367", "3fea3fad8d6f38330e6d3baf228e87af",
      "aa1ecf20c0ca1ebe9dbf06a1d20ab0c6", "4f1e83b8631a9176c5f2a05dfeb26cee",
      "bb2b2cae1dfc721033c481fa87cf9709", "a57a5179cbc0c5e5c9901ede1b66f0ea",
      "61fbde7590f2b6abe89de313ec0c0c8e", "4b442ba924af4bbf3f5cc58dd2c92715",
      "b3478f1c55c215bf79239183da70dbfe", "ff1b818c4f8a969019792473e484fc64",
      "c3677b9de57d9e19bfe8d057fa17f898", "f817eb53f77d3c03930d2c43edf76f34",
      "05389c81d0a128143e46d2bcae70930d", "c36ab428092c6ecf27c1e612d386dc5e",
      "a30851554119cdb5c7dab541a1e9889d", "f3459c68db8f751cabcd01dfcdf20c71",
      "9b8fafe5108fa313080c679945f765b2", "0a51f0c55015c712d5419dcd6a4e7f97" >>

\* the 32-byte SHA-256 digest of the UTF-8 bytes of the configured passphrase
CustomerKey ==
    DigestIn(digests, Sha256BytesInput(TextEncode(CodeUnits(sse.encryption_key))))

\* C11: every getSSEHeaders() call returns the algorithm 'AES256', the base64
\* of the 32-byte SHA-256 digest K of the UTF-8 passphrase, and the base64 of
\* the 16-byte RFC 1321 digest of the raw bytes of K; all calls return the same
C11_SSEHeadersOfTheKey ==
    \A r \in sseHeaders :
        /\ r.headers.algorithm = "AES256"
        /\ Len(CustomerKey) = 32
        /\ Atob(r.headers.key) = [ok |-> TRUE, bytes |-> CustomerKey, name |-> ""]
        /\ Atob(r.headers.keyMD5).ok
        /\ Len(Atob(r.headers.keyMD5).bytes) = 16
        /\ HexOfBytes(Atob(r.headers.keyMD5).bytes) = RFC1321OfKey[CustomerKey[32]]
        /\ \A q \in sseHeaders : q.headers = r.headers

\* getSSEHeaders() has returned twice
C11_Witness ==
    \E r, q \in sseHeaders : r.call = 1 /\ q.call = 2

\* C12: once the application has cleaned up, the bytes of the customer key
\* the signer holds are all zero
C12_KeyZeroedAfterCleanup ==
    cleanedUp => \A i \in 1..Len(sse.sseKey) : sse.sseKey[i] = 0

\* C15: a presigned url is only ever made by a signer that was given an
\* endpoint, a region, a bucket and both credentials, and that signs with
\* the values it was given
C15_NoSigningWithMissingField ==
    artifacts # {} =>
        /\ given.s3_endpoint # "" /\ given.s3_region # "" /\ given.s3_bucket # ""
        /\ given.s3_access_key # "" /\ given.s3_secret_key # ""
        /\ config.s3_endpoint = given.s3_endpoint
        /\ config.s3_region = given.s3_region

\* the key bytes or the passphrase are in a request
CarriesTheKey(q) ==
    \/ sse.resolved /\ Atob(q.headers.key).bytes = sse.sseKey
    \/ IndexOf(q.url, sse.encryption_key) # 0
    \/ q.body = TextEncode(CodeUnits(sse.encryption_key))

\* C18: no request sent to the object store carries the passphrase or the
\* bytes of the key
C18_NoRequestCarriesTheKey ==
    \A q \in requests : ~CarriesTheKey(q)

\* C19: the body of every upload request is an AES-GCM ciphertext
C19_UploadBodyIsCiphertext ==
    \A q \in requests :
        q.method = "PUT" => \E i \in 1..Len(gcm) : gcm[i].ct = q.body

-----------------------------------------------------------------------------
(* Properties of the key derivation *)

\* C16: no encryptString / encryptFile call returns an envelope made with a
\* passphrase shorter than the minimum length
C16_NoEnvelopeUnderShortPassphrase ==
    \A f \in sealed : Len(f.pass) >= minLength

-----------------------------------------------------------------------------
(* Properties of the ConfigManager *)

\* C17: the manager is only ever configured with an encryption passphrase of
\* at least 32 characters (the documented minimum, which the code has as the
\* recommended length): setConfig, importConfig and importFromQRCode accept
\* no shorter one
C17_ShortPassphraseNeverAccepted ==
    manager.isConfigured =>
        Len(manager.currentConfig.encryption_key) >= recommendedLength

\* the stored text holds the three base64 members of the envelope
HoldsEnvelope(text) ==
    \A name \in {"encryptedData", "salt", "iv"} :
        /\ JsonMember(text, name).has
        /\ Atob(JsonMember(text, name).value).ok

\* the stored text names the cipher: a member algorithm, or the name AES-GCM
HoldsAlgorithm(text) ==
    \/ IndexOf(text, JsonString("algorithm")) # 0
    \/ IndexOf(text, CodeUnits("AES-GCM")) # 0

\* the configuration of the last 'configurationChanged' event
LastSaved ==
    LET at == {i \in 1..Len(events) : events[i].type = "configurationChanged"}
    IN events[CHOOSE i \in at : \A j \in at : j <= i].detail

\* an initialize() that has just ended over a stored item has loaded the
\* configuration last saved
LoadedIsLastSaved ==
    (/\ pending = NoCall
     /\ storage.present
     /\ \E o \in outcomes : o.op = "initialize" /\ o.n = nManager)
        => /\ \E o \in outcomes :
                  o.op = "initialize" /\ o.n = nManager /\ o.returned = "true"
           /\ manager.isConfigured
           /\ manager.currentConfig = LastSaved

\* C21: the stored record holds the base64 ciphertext, iv and salt and an
\* algorithm identifier, and a fresh ConfigManager over the same storage
\* loads the defaults overlaid with the configuration that was set
C21_RecordAndRoundTrip ==
    /\ storage.present =>
           HoldsEnvelope(storage.text) /\ HoldsAlgorithm(storage.text)
    /\ LoadedIsLastSaved

\* the access key, secret key and passphrase of every configuration the
\* calls are given
Secrets ==
    ({cfg[name] : cfg \in ManagerConfigs,
                  name \in {"s3_access_key", "s3_secret_key", "encryption_key"}}
         \cup {update[2] : update \in FieldUpdates}) \ {""}

\* C22: the item stored under the configuration key is absent or an
\* encrypted record: no access key, secret key or passphrase occurs in the
\* stored text, nor in the bytes its base64 members stand for
C22_NoSecretInStorage ==
    storage.present =>
        /\ HoldsEnvelope(storage.text)
        /\ \A held \in {<<storage.text>>
                           \o [i \in 1..3 |->
                                  Atob(JsonMember(storage.text,
                                           <<"encryptedData", "salt", "iv">>[i]).value).bytes]} :
               \A secret \in Secrets :
                   /\ ~ContainsBytes(held[1], CodeUnits(secret))
                   /\ \A i \in 2..4 :
                          ~ContainsBytes(held[i], TextEncode(CodeUnits(secret)))

\* C22: an item is stored for a configuration whose secret key was set by
\* updateConfigField
C22_Witness ==
    /\ storage.present
    /\ pending = NoCall
    /\ manager.isConfigured
    /\ manager.currentConfig.s3_secret_key = "SECRET2"

\* the calls that set the configuration
SetOps == {"setConfig", "updateConfigField", "importConfig", "importFromQRCode"}

\* C26: when setConfig, or a call that goes through it, ends in an error,
\* currentConfig, isConfigured and the stored item are what they were when
\* the call started and no event has been dispatched since
C26_SetConfigAtomicOnFailure ==
    [][\A o \in outcomes' \ outcomes :
           (o.op \in SetOps /\ ~o.ok) =>
               LET before == IF pending = NoCall THEN Before ELSE pending.before
               IN /\ manager' = before.manager
                  /\ storage' = before.storage
                  /\ Len(events') = before.events]_vars

\* C24: testConnection never throws; with a configuration set and a store
\* whose test succeeds it returns success = true; it returns success = false,
\* with a message, only when no configuration is set or the test fails
C24_TestConnectionReportsTheTest ==
    \A o \in outcomes :
        o.op = "testConnection" =>
            /\ o.ok
            /\ (o.configured /\ o.s3 = "ok") => o.returned = "true"
            /\ o.returned = "false" =>
                   o.message # "" /\ (~o.configured \/ o.s3 = "fails")

-----------------------------------------------------------------------------
(* Properties of the batch upload *)

\* C20: what the store holds for an uploaded photo contains, with the
\* ciphertext, the salt and the iv of the encryptFile call that made it, so
\* that it can be decrypted from the stored data and the passphrase alone
C20_StoredDataHoldsSaltAndIV ==
    \A o \in store :
        \A f \in sealed :
            (f.op = "encryptFile" /\ f.env.encryptedData = o.body)
                => /\ ContainsBytes(o.body, f.env.salt)
                   /\ ContainsBytes(o.body, f.env.iv)

\* a startBatchUpload call ends in this step
BatchEnds(b) == batch[b] # NoBatch /\ batch'[b] = NoBatch

\* C23: batchProcess returns one result for each file given, in the order
\* given, each a 'success' or an 'error'; and when a startBatchUpload ends,
\* every item of the queue has been tried: a failure of one upload has not
\* kept the loop from the others
C23_FailureScopedToOneFile ==
    [][/\ \A k \in 1..Len(processed') :
              LET p == processed'[k]
              IN /\ Len(p.results) = Len(p.files)
                 /\ \A i \in 1..Len(p.files) :
                        /\ p.results[i].file = p.files[i]
                        /\ p.results[i].status \in {"success", "error"}
       /\ \A b \in BatchSlots :
              BatchEnds(b) =>
                  \A i \in 1..Len(uploadQueue) :
                      uploadQueue[i].present =>
                          uploadQueue'[i].status \in {"completed", "error"}]_vars

\* C23: a file that failed in batchProcess was followed by one that did not,
\* and a batch has ended in which the upload of the first item failed and
\* that of the second succeeded
C23_Witness ==
    /\ \E k \in 1..Len(processed) :
           /\ Len(processed[k].results) = 2
           /\ processed[k].results[1].status = "error"
           /\ processed[k].results[2].status = "success"
    /\ Len(uploadQueue) = 2
    /\ uploadQueue[1].status = "error"
    /\ uploadQueue[2].status = "completed"
    /\ \A b \in BatchSlots : batch[b] = NoBatch

\* C27: uploadFile is invoked at most once for an item of the queue, and no
\* batch reports more completed items than the total it announced
C27_EachItemUploadedOnce ==
    /\ \A i, j \in 1..Len(uploadCalls) :
           i # j => uploadCalls[i].id # uploadCalls[j].id
    /\ \A k \in 1..Len(messages) : messages[k].completed <= messages[k].total

\* C28: when a startBatchUpload ends, every item that was in the queue has
\* been uploaded or is still in the queue with the status 'error', and a
\* batch in which an upload failed is not reported as a success
C28_NoQueuedFileLost ==
    [][\A b \in BatchSlots :
           BatchEnds(b) =>
               /\ \A i \in 1..Len(uploadQueue) :
                      uploadQueue[i].present =>
                          \/ uploadQueue'[i].status = "completed"
                          \/ /\ uploadQueue'[i].present
                             /\ uploadQueue'[i].status = "error"
               /\ (\E i \in 1..Len(uploadQueue) :
                       uploadQueue[i].present /\ uploadQueue'[i].status = "error")
                      => messages'[Len(messages')].type # "success"]_vars


-----------------------------------------------------------------------------
(* Properties of the application controller *)

\* the page has all the browser properties and the four classes, and the
\* crypto self-test answers true
AllInPlace ==
    /\ ~CheckBrowserCompatibility(page.has).threw
    /\ ~LoadComponents(page.window).threw
    /\ page.selfTest

\* isInitialized is true and 'appReady' was dispatched
AppReady == app.isInitialized /\ app.dispatched = <<"appReady">>

\* C25: when the browser compatibility check passes and the four component
\* classes are loaded, initialize() eventually sets isInitialized and
\* dispatches 'appReady', and only after the self-tests have passed and the UI
\* was initialised; the fatal error screen is shown only when a check or a
\* component is missing or failing.
C25_InitializeReachesReady ==
    /\ [](AppReady => app.selfTests = "passed" /\ app.uiInitialized)
    /\ [](app.fatal.shown => ~AllInPlace)
    /\ (AllInPlace ~> AppReady)

-----------------------------------------------------------------------------
(* Properties of the gallery and the photo viewer *)

\* currentPhoto is null or the index of a photo of photoGallery
CurrentPhotoInRange ==
    \/ gallery.currentPhoto.isNull
    \/ gallery.currentPhoto.number \in 0..(Len(gallery.photoGallery) - 1)

\* C29: currentPhoto is null or the index of a photo of photoGallery, after
\* any sequence of tile clicks, closePhotoViewer, showPreviousPhoto,
\* showNextPhoto and loadGallery completions; showPreviousPhoto and
\* showNextPhoto change nothing while the viewer is closed.
C29_CurrentPhotoInRange ==
    /\ []CurrentPhotoInRange
    /\ [][(gallery.currentPhoto.isNull /\ (ShowPreviousPhoto \/ ShowNextPhoto))
              => gallery' = gallery]_vars

\* C30: a click on a tile of the photo grid opens the photo of that tile, also
\* when the grid shows the tiles of searchPhotos(query): currentPhoto is the
\* place of the tile's photo in photoGallery and the viewer shows that photo.
C30_TileOpensItsPhoto ==
    [][\A t \in 1..Len(gallery.tiles) :
          ClickTile(t) =>
              /\ gallery'.shown = gallery.tiles[t].photo
              /\ gallery'.photoGallery[gallery'.currentPhoto.number + 1]
                     = gallery.tiles[t].photo]_vars

=============================================================================
